---- MODULE Spec2Model ----
(***************************************************************************)
(* Model of bp3d-tracing (BlockProject3D/debug.tracing).                   *)
(*                                                                         *)
(*   SpecCore : the subscriber core, BaseTracer<T> of src/core.rs, driven  *)
(*              by any number of threads, with a sink T that records the   *)
(*              callbacks it receives.                                     *)
(*   SpecProf : BaseTracer<Profiler>: the profiler sink of                 *)
(*              src/profiler/core.rs, its bounded channels and the worker  *)
(*              loop of src/profiler/thread/core.rs writing to the wire.   *)
(*                                                                         *)
(* A SpanId is a NonZeroU64 packing (node id << 32 | instance).  It is     *)
(* kept here as its two 32-bit halves [node, instance]; the all-zero value *)
(* is the niche Rust uses for Option<SpanId>::None.                        *)
(***************************************************************************)
EXTENDS Integers, Sequences, FiniteSets, TLC

\* ------------------------------------------------------------------ bounds
NumThreads == 2
NumCallSites == 2
MaxSpans == 2
MaxClones == 1
MaxFrames == 2
MaxTime == 1
MaxOps == 5
MaxProfOps == 4
\* capacity of each channel (BUF_SIZE of src/profiler/state.rs, scaled down)
MaxQueue == 2
\* producer calls in the runs with fairness
MaxLiveOps == 3
\* the failed writes counted
MaxErrors == 2
\* the span store: nodes, calls, clock, durations, time between two clock reads
NumNodes == 2
MaxStoreOps == 5
MaxClock == 3
MaxDuration == 1
MaxGap == 2
\* the aggregates: logs applied, longest duration of a log
MaxAggOps == 5
MaxLogDuration == 1
\* the worker's settings: ServerConfig.max_rows and min_period
GlobalMaxRows == 2
MinPeriod == 1
\* ClientConfig.max_average_points
MaxAveragePoints == 2

Threads == 1..NumThreads
\* a call-site is the address of its static Metadata
CallSites == 1..NumCallSites
Times == 0..MaxTime
StoreNodes == 1..NumNodes

VARIABLES
    \* ---- subscriber core (src/core.rs)
    spans_by_meta,   \* Inner.spans_by_meta : call-site address -> SpanHead
    spans_by_id,     \* Inner.spans_by_id   : SpanId -> SpanData
    counter,         \* BaseTracer.counter
    SPAN_STACK,      \* thread_local SPAN_STACK, one Vec<SpanLocal> per thread
    now,             \* the monotonic clock read by Instant::now()
    \* ---- observation of the calls made so far
    last,            \* the last subscriber call: arguments, result, sink callbacks
    handles,         \* SpanId -> number of spans new_span returned with that id
                     \* and try_close has not destroyed yet
    nclone,          \* SpanId -> clone_span calls on the id since new_span
    nclose,          \* SpanId -> try_close calls on the id since new_span
    nops,            \* number of subscriber calls made so far
    \* ---- profiler sink (src/profiler/core.rs)
    spans,           \* Profiler.spans : SpanId -> SpanVisitor
    mutex,           \* BaseTracer.inner's lock: the thread inside new_span, 0 if free
    pc,              \* where each thread is inside new_span/span_create
    pend,            \* the span_create call each thread is in the middle of
    exited,          \* ProfilerState.exited
    joined,          \* ProfilerState::terminate has joined the worker and returned
    \* ---- channels (src/profiler/state.rs) and worker (src/profiler/thread/core.rs)
    ch_span_control, \* channels.span_control, of command::Span<SpanControl>
    ch_span,         \* channels.span, of SpanLog
    ch_event,        \* channels.event, of EventLog
    ch_control,      \* channels.control, of command::Control
    worker,          \* "running" inside Thread::run's loop, "exited" after it
    span_data,       \* Thread.span_data : node id -> SpanData
    wire,            \* the messages written to the socket so far
    socket,          \* Net.socket: "open", or "closed" once the peer is gone
    net_errors,      \* the write_all calls that returned Err so far
    \* ---- span store (src/profiler/thread/store.rs)
    store,           \* the SpanStore
    window,          \* node id -> the logs processed since recording was last
                     \* started, and when the node's last SpanUpdate was made
    \* ---- observation
    sent,            \* node id -> SpanLogs span_exit has put on the span channel
    expect,          \* the SpanParent messages the UpdateParent commands put on
                     \* ch_span_control so far are claimed to become
    \* ---- units examined on their own
    hello,           \* the two Hello packets of a handshake and what matches said
    log_msg,         \* a SpanLog / EventLog buffer being written
                     \* (src/profiler/log_msg.rs)
    net,             \* Net of src/profiler/thread/net.rs: fixed_buffer and the
                     \* bytes handed to the socket writer
    filter,          \* a sink, a metadata level and what enabled() answered
    LOG_BUFFER_RC,   \* static LOG_BUFFER_RC (src/lib.rs)
    STDOUT_DISABLE_RC, \* static STDOUT_DISABLE_RC (src/lib.rs)
    logger,          \* bp3d_logger: is the log buffer on, is stdout off
    guards,          \* per thread: where it is inside new()/drop, and the
                     \* handles it holds
    thread           \* ProfilerState.thread: "Some" while the JoinHandle of the
                     \* worker is there, "None" once terminate has taken it

coreVars == <<spans_by_meta, spans_by_id, counter, SPAN_STACK, now>>
obsVars == <<last, handles, nclone, nclose, nops>>
sinkVars == <<spans, mutex, pc, pend, exited>>
chanVars == <<ch_span_control, ch_span, ch_event, ch_control>>
workerVars == <<worker, span_data, wire>>
netVars == <<socket, net_errors>>
storeVars == <<store, window>>
guardVars == <<LOG_BUFFER_RC, STDOUT_DISABLE_RC, logger, guards>>
unitVars == <<hello, log_msg, net, filter, guardVars, thread>>
profVars ==
    <<sinkVars, chanVars, workerVars, sent, expect, joined, netVars, storeVars,
      unitVars>>
vars == <<coreVars, obsVars, profVars>>

\* ------------------------------------------------------------ src/util.rs
hash_static_ref(meta) == meta

NoSpan == [node |-> 0, instance |-> 0]

SpanId_from(id, instance) == [node |-> id, instance |-> instance]

get_id(span) == span.node

get_instance(span) == span.instance

\* every id the callers may pass, allocated or not
AllIds == {SpanId_from(n, i) : n \in 1..NumCallSites, i \in 0..(MaxSpans - 1)}

\* ------------------------------------------------------ src/core.rs: SpanHead
SpanHead_new(span_id) ==
    [span_id |-> span_id, next_instance_id |-> 0, instance_count |-> 0,
     freed_instances |-> <<>>]

\* free_instance that always pushes the id back, without the reset at zero
free_instance_noreset(head, id) ==
    [head EXCEPT !.instance_count = @ - 1, !.freed_instances = Append(@, id)]

free_instance(head, id) ==
    LET h == [head EXCEPT !.instance_count = @ - 1] IN
    IF h.instance_count = 0
    THEN [h EXCEPT !.freed_instances = <<>>, !.next_instance_id = 0]
    ELSE [h EXCEPT !.freed_instances = Append(@, id)]

\* new_instance that forgets `self.next_instance_id += 1`
new_instance_noinc(head) ==
    LET h == [head EXCEPT !.instance_count = @ + 1]
        n == Len(h.freed_instances) IN
    IF n = 0
    THEN [head |-> h, id |-> h.next_instance_id]
    ELSE [head |-> [h EXCEPT !.freed_instances = SubSeq(@, 1, n - 1)],
          id |-> h.freed_instances[n]]

\* returns the updated head and the instance id
new_instance(head) ==
    LET h == [head EXCEPT !.instance_count = @ + 1]
        n == Len(h.freed_instances) IN
    IF n = 0
    THEN [head |-> [h EXCEPT !.next_instance_id = @ + 1], id |-> h.next_instance_id]
    ELSE [head |-> [h EXCEPT !.freed_instances = SubSeq(@, 1, n - 1)],
          id |-> h.freed_instances[n]]

\* ------------------------------------------------- src/core.rs: SPAN_STACK
SpanLocal_new(id) == [id |-> id, last_time |-> now]

push_span(stack, span) == Append(stack, SpanLocal_new(span))

\* Iterator::position: index of the first element that matches, 0 for None
position(stack, span) ==
    IF \E i \in 1..Len(stack) : stack[i].id = span
    THEN CHOOSE i \in 1..Len(stack) :
            /\ stack[i].id = span
            /\ \A j \in 1..(i - 1) : stack[j].id # span
    ELSE 0

\* Vec::remove
remove(stack, i) == SubSeq(stack, 1, i - 1) \o SubSeq(stack, i + 1, Len(stack))

\* returns found (Some/None), the duration and the stack left
pop_span(stack, span) ==
    LET id == position(stack, span) IN
    IF id = 0
    THEN [found |-> FALSE, duration |-> 0, stack |-> stack]
    ELSE [found |-> TRUE, duration |-> now - stack[id].last_time,
          stack |-> remove(stack, id)]

current_span(stack) == IF Len(stack) = 0 THEN NoSpan ELSE stack[Len(stack)].id

\* ------------------------------------------------------- sink callbacks
Call(cb, id, new, parent, duration) ==
    [cb |-> cb, id |-> id, new |-> new, parent |-> parent, duration |-> duration]

NoLast == [op |-> "none"]

TotalFrames == LET S[i \in 0..NumThreads] ==
                       IF i = 0 THEN 0 ELSE S[i - 1] + Len(SPAN_STACK[i])
               IN S[NumThreads]

\* no SpanStore has been made
NoStore ==
    [span_data |-> <<>>, max_rows |-> 0, global_max_rows |-> 0,
     max_average_points |-> 0, enable_recording |-> FALSE, period |-> 0]

NoPend ==
    [id |-> NoSpan, meta |-> 0, parent |-> NoSpan, is_root |-> FALSE,
     explicit |-> NoSpan, top |-> NoSpan, new |-> FALSE]


\* the units examined on their own are not in play
InitUnits ==
    /\ hello = "none"
    /\ log_msg = "none"
    /\ net = "none"
    /\ filter = "none"
    /\ LOG_BUFFER_RC = 0
    /\ STDOUT_DISABLE_RC = 0
    /\ logger = [log_buffer |-> FALSE, stdout |-> TRUE]
    /\ guards = [t \in Threads |-> "none"]
    /\ thread = "Some"

InitCore ==
    /\ InitUnits
    /\ spans_by_meta = <<>>
    /\ spans_by_id = <<>>
    /\ counter = 1
    /\ SPAN_STACK = [t \in Threads |-> <<>>]
    /\ now = 0
    /\ last = NoLast
    /\ handles = [i \in AllIds |-> 0]
    /\ nclone = [i \in AllIds |-> 0]
    /\ nclose = [i \in AllIds |-> 0]
    /\ nops = 0
    /\ spans = <<>>
    /\ mutex = 0
    /\ pc = [t \in Threads |-> "idle"]
    /\ pend = [t \in Threads |-> NoPend]
    /\ exited = FALSE
    /\ joined = FALSE
    /\ socket = "open"
    /\ net_errors = 0
    /\ store = NoStore
    /\ window = <<>>
    /\ ch_span_control = <<>>
    /\ ch_span = <<>>
    /\ ch_event = <<>>
    /\ ch_control = <<>>
    /\ worker = "running"
    /\ span_data = <<>>
    /\ wire = <<>>
    /\ sent = [n \in 1..NumCallSites |-> 0]
    /\ expect = <<>>

\* time passes
Tick ==
    /\ now < MaxTime
    /\ now' = now + 1
    /\ UNCHANGED <<spans_by_meta, spans_by_id, counter, SPAN_STACK, obsVars, profVars>>

\* new_span's parent: root, else the explicit parent, else the thread's
\* current span
or_else(opt, other) == IF opt # NoSpan THEN opt ELSE other

\* resolve_parent that ignores `span.is_root()`
resolve_parent_noroot(stack, is_root, parent) ==
    or_else(parent, current_span(stack))

resolve_parent(stack, is_root, parent) ==
    IF is_root THEN NoSpan ELSE or_else(parent, current_span(stack))

\* new_span that takes a call-site none of whose spans is left for a new one
alloc_span_renew(meta) ==
    LET key == hash_static_ref(meta)
        known == key \in DOMAIN spans_by_meta
        head0 == IF known THEN spans_by_meta[key] ELSE SpanHead_new(counter)
        r == new_instance(head0)
        span_id == SpanId_from(head0.span_id, r.id)
    IN  [counter |-> IF known THEN counter ELSE counter + 1,
         spans_by_meta |-> [k \in DOMAIN spans_by_meta \cup {key} |->
                                IF k = key THEN r.head ELSE spans_by_meta[k]],
         spans_by_id |-> [i \in DOMAIN spans_by_id \cup {span_id} |->
                                IF i = span_id
                                THEN [ref_count |-> 1, metadata |-> meta]
                                ELSE spans_by_id[i]],
         span_id |-> span_id,
         new |-> ~known \/ head0.instance_count = 0,
         pre_count |-> IF known THEN head0.instance_count ELSE -1]

\* BaseTracer::new_span, what it does to Inner and the counter under the lock
alloc_span(meta) ==
    LET key == hash_static_ref(meta)
        known == key \in DOMAIN spans_by_meta
        head0 == IF known THEN spans_by_meta[key] ELSE SpanHead_new(counter)
        r == new_instance(head0)
        span_id == SpanId_from(head0.span_id, r.id)
    IN  [counter |-> IF known THEN counter ELSE counter + 1,
         spans_by_meta |-> [k \in DOMAIN spans_by_meta \cup {key} |->
                                IF k = key THEN r.head ELSE spans_by_meta[k]],
         spans_by_id |-> [i \in DOMAIN spans_by_id \cup {span_id} |->
                                IF i = span_id
                                THEN [ref_count |-> 1, metadata |-> meta]
                                ELSE spans_by_id[i]],
         span_id |-> span_id,
         new |-> ~known,
         pre_count |-> IF known THEN head0.instance_count ELSE -1]

\* BaseTracer::new_span with a sink that returns at once
new_span(t, meta, is_root, parent) ==
    LET a == alloc_span(meta)
        par == resolve_parent(SPAN_STACK[t], is_root, parent)
    IN  /\ Cardinality(DOMAIN spans_by_id) < MaxSpans
        /\ counter' = a.counter
        /\ spans_by_meta' = a.spans_by_meta
        /\ spans_by_id' = a.spans_by_id
        /\ last' = [op |-> "new_span", t |-> t, id |-> a.span_id,
                    is_root |-> is_root, explicit |-> parent,
                    pre_count |-> a.pre_count,
                    calls |-> <<Call("span_create", a.span_id, a.new, par, 0)>>]
        /\ handles' = [handles EXCEPT ![a.span_id] = @ + 1]
        /\ nclone' = [nclone EXCEPT ![a.span_id] = 0]
        /\ nclose' = [nclose EXCEPT ![a.span_id] = 0]
        /\ UNCHANGED <<SPAN_STACK, now>>

\* clone_span that forgets `data.ref_count += 1`
clone_span_noinc(id) ==
    /\ IF id \in DOMAIN spans_by_id
       THEN /\ nclone[id] < MaxClones
            /\ nclone' = [nclone EXCEPT ![id] = @ + 1]
       ELSE UNCHANGED nclone
    /\ last' = [op |-> "clone_span", id |-> id, calls |-> <<>>]
    /\ UNCHANGED <<spans_by_meta, spans_by_id, counter, SPAN_STACK, now, handles, nclose>>

\* BaseTracer::clone_span; nothing in it depends on the calling thread, and the
\* mutex makes the calls of all threads take effect one after the other
clone_span(id) ==
    /\ IF id \in DOMAIN spans_by_id
       THEN /\ nclone[id] < MaxClones
            /\ spans_by_id' = [spans_by_id EXCEPT ![id].ref_count = @ + 1]
            /\ nclone' = [nclone EXCEPT ![id] = @ + 1]
       ELSE UNCHANGED <<spans_by_id, nclone>>
    /\ last' = [op |-> "clone_span", id |-> id, calls |-> <<>>]
    /\ UNCHANGED <<spans_by_meta, counter, SPAN_STACK, now, handles, nclose>>

\* close_span that forgets `lock.spans_by_id.remove(&span)`
close_span_noremove(span) ==
    LET known == span \in DOMAIN spans_by_id
        ref == IF known THEN spans_by_id[span].ref_count - 1 ELSE -1
        destroy == known /\ ref = 0
        key == hash_static_ref(spans_by_id[span].metadata)
    IN  [known |-> known,
         destroy |-> destroy,
         pre_ref |-> IF known THEN spans_by_id[span].ref_count ELSE 0,
         spans_by_meta |-> IF destroy
                           THEN [spans_by_meta EXCEPT ![key] =
                                    free_instance(@, get_instance(span))]
                           ELSE spans_by_meta,
         spans_by_id |-> IF known /\ ref >= 0
                         THEN [spans_by_id EXCEPT ![span].ref_count = ref]
                         ELSE spans_by_id]

\* BaseTracer::try_close, what it does to Inner under the lock
close_span(span) ==
    LET known == span \in DOMAIN spans_by_id
        ref == IF known THEN spans_by_id[span].ref_count - 1 ELSE -1
        destroy == known /\ ref = 0
        key == hash_static_ref(spans_by_id[span].metadata)
    IN  [known |-> known,
         destroy |-> destroy,
         pre_ref |-> IF known THEN spans_by_id[span].ref_count ELSE 0,
         spans_by_meta |-> IF destroy
                           THEN [spans_by_meta EXCEPT ![key] =
                                    free_instance(@, get_instance(span))]
                           ELSE spans_by_meta,
         spans_by_id |-> IF destroy
                         THEN [i \in DOMAIN spans_by_id \ {span} |-> spans_by_id[i]]
                         ELSE IF known
                              THEN [spans_by_id EXCEPT ![span].ref_count = ref]
                              ELSE spans_by_id]

\* BaseTracer::try_close; nothing in it depends on the calling thread
try_close(span) ==
    LET c == close_span(span) IN
    /\ spans_by_meta' = c.spans_by_meta
    /\ spans_by_id' = c.spans_by_id
    /\ IF c.destroy
       THEN /\ handles' = [handles EXCEPT ![span] = 0]
            /\ nclone' = [nclone EXCEPT ![span] = 0]
            /\ nclose' = [nclose EXCEPT ![span] = 0]
       ELSE /\ nclose' = IF c.known THEN [nclose EXCEPT ![span] = @ + 1] ELSE nclose
            /\ UNCHANGED <<handles, nclone>>
    /\ last' = [op |-> "try_close", id |-> span, ret |-> c.destroy,
                pre_ref |-> c.pre_ref,
                calls |-> IF c.destroy
                          THEN <<Call("span_destroy", span, FALSE, NoSpan, 0)>>
                          ELSE <<>>]
    /\ UNCHANGED <<counter, SPAN_STACK, now>>

\* BaseTracer::enter
enter(t, span) ==
    /\ TotalFrames < MaxFrames
    /\ SPAN_STACK' = [SPAN_STACK EXCEPT ![t] = push_span(@, span)]
    /\ last' = [op |-> "enter", t |-> t, id |-> span,
                calls |-> <<Call("span_enter", span, FALSE, NoSpan, 0)>>]
    /\ UNCHANGED <<spans_by_meta, spans_by_id, counter, now, handles, nclone, nclose>>

\* BaseTracer::exit forwarding span_exit whatever pop_span returns
exit_unconditional(t, span) ==
    LET r == pop_span(SPAN_STACK[t], span) IN
    /\ SPAN_STACK' = [SPAN_STACK EXCEPT ![t] = r.stack]
    /\ last' = [op |-> "exit", t |-> t, id |-> span, found |-> r.found,
                calls |-> <<Call("span_exit", span, FALSE, NoSpan, r.duration)>>]
    /\ UNCHANGED <<spans_by_meta, spans_by_id, counter, now, handles, nclone, nclose>>

\* BaseTracer::exit
exit(t, span) ==
    LET r == pop_span(SPAN_STACK[t], span) IN
    /\ SPAN_STACK' = [SPAN_STACK EXCEPT ![t] = r.stack]
    /\ last' = [op |-> "exit", t |-> t, id |-> span, found |-> r.found,
                calls |-> IF r.found
                          THEN <<Call("span_exit", span, FALSE, NoSpan, r.duration)>>
                          ELSE <<>>]
    /\ UNCHANGED <<spans_by_meta, spans_by_id, counter, now, handles, nclone, nclose>>

\* BaseTracer::current_span: the top frame of the thread, whose metadata is
\* read with spans_by_id.get(&v).unwrap(); the unwrap of None panics
Subscriber_current_span(t) ==
    LET v == current_span(SPAN_STACK[t]) IN
    /\ last' = [op |-> "current_span", t |-> t, id |-> v,
                panics |-> v # NoSpan /\ v \notin DOMAIN spans_by_id,
                calls |-> <<>>]
    /\ UNCHANGED <<coreVars, handles, nclone, nclose>>

\* one more subscriber call, the profiler standing still
Op == nops < MaxOps /\ nops' = nops + 1 /\ UNCHANGED profVars

NextCore ==
    \/ Tick
    \/ \E t \in Threads, meta \in CallSites, is_root \in BOOLEAN,
          parent \in {NoSpan} \cup DOMAIN spans_by_id :
            Op /\ new_span(t, meta, is_root, parent)
    \/ \E id \in AllIds : Op /\ clone_span(id)
    \/ \E id \in AllIds : Op /\ try_close(id)
    \/ \E t \in Threads, id \in AllIds : Op /\ enter(t, id)
    \/ \E t \in Threads, id \in AllIds : Op /\ exit(t, id)
    \/ \E t \in Threads : Op /\ Subscriber_current_span(t)

SpecCore == InitCore /\ [][NextCore]_vars

\* ========================================================================
\* BaseTracer<Profiler>: the profiler sink, its channels and the worker

\* ---------------------------------------------------- Option<NonZeroU32>
None32 == [some |-> FALSE, v |-> 0]

Some32(n) == [some |-> TRUE, v |-> n]

\* parent.map(|v| v.get_id())
map_get_id(parent) == IF parent = NoSpan THEN None32 ELSE Some32(get_id(parent))

\* opt.map(|v| v.get()).unwrap_or(d)
unwrap_or(opt, d) == IF opt.some THEN opt.v ELSE d

\* ------------------------------------- src/profiler/thread/command.rs
SpanControl(ty, id, metadata, parent, follows) ==
    [ty |-> ty, id |-> id, metadata |-> metadata, parent |-> parent,
     follows |-> follows]

Alloc(id, metadata) == SpanControl("Alloc", id, metadata, None32, NoSpan)

UpdateParent(id, parent) == SpanControl("UpdateParent", id, 0, parent, NoSpan)

Follows(id, follows) == SpanControl("Follows", id, 0, None32, follows)

\* ------------------------------------------ src/profiler/log_msg.rs
SpanLog_new(id) == [id |-> id, duration |-> 0]

set_duration(msg, duration) == [msg EXCEPT !.duration = duration]

EventLog_new(id) == [id |-> id]

\* ------------------------------------------ src/profiler/visitor.rs
SpanVisitor_new(id, parent) == [msg |-> SpanLog_new(id), parent |-> parent]

\* reset that reports a change whatever the parent was
reset_always(visitor, parent) ==
    [visitor |-> [visitor EXCEPT !.parent = parent], changed |-> TRUE]

\* returns the visitor and whether the parent changed
reset(visitor, parent) ==
    IF visitor.parent # parent
    THEN [visitor |-> [visitor EXCEPT !.parent = parent], changed |-> TRUE]
    ELSE [visitor |-> visitor, changed |-> FALSE]

\* --------------------------------- src/profiler/network_types/header.rs
Msg(ty, id, arg) == [ty |-> ty, id |-> id, arg |-> arg]

\* ------------------------------------ src/profiler/thread/state.rs
Duration_MAX == 2147483647

OVERFLOW_LIMIT == 1000000000

SpanData_new ==
    [run_count |-> 0, has_overflowed |-> FALSE, min_time |-> 0,
     max_time |-> Duration_MAX, total_time |-> 0]

\* ------------------------------------------------- channels
\* blocking_send returns: there is room, or the receiver is gone
can_send(ch) == worker = "exited" \/ Len(ch) < MaxQueue

\* a send that queues the message although the receiver is gone
blocking_send_open(ch, m) == Append(ch, m)

\* a send on a closed channel is an Err, which every caller drops
blocking_send(ch, m) == IF worker = "exited" THEN ch ELSE Append(ch, m)

\* the ids new_span has returned to its caller and try_close has not destroyed
Returned == DOMAIN spans_by_id \ {pend[t].id : t \in Threads}

ProfOp == nops < MaxProfOps /\ nops' = nops + 1

InitProf ==
    /\ InitUnits
    /\ spans_by_meta = <<>>
    /\ spans_by_id = <<>>
    /\ counter = 1
    /\ SPAN_STACK = [t \in Threads |-> <<>>]
    /\ now = 0
    /\ last = NoLast
    /\ handles = [i \in AllIds |-> 0]
    /\ nclone = [i \in AllIds |-> 0]
    /\ nclose = [i \in AllIds |-> 0]
    /\ nops = 0
    /\ spans = <<>>
    /\ mutex = 0
    /\ pc = [t \in Threads |-> "idle"]
    /\ pend = [t \in Threads |-> NoPend]
    /\ exited = FALSE
    /\ joined = FALSE
    /\ socket = "open"
    /\ net_errors = 0
    /\ store = NoStore
    /\ window = <<>>
    /\ ch_span_control = <<>>
    /\ ch_span = <<>>
    /\ ch_event = <<>>
    \* Profiler::new has sent Project before the subscriber is installed
    /\ ch_control = <<[ty |-> "Project"]>>
    /\ worker = "running"
    /\ span_data = <<>>
    /\ wire = <<>>
    /\ sent = [n \in 1..NumCallSites |-> 0]
    /\ expect = <<>>

ghostCounters == <<handles, nclone, nclose>>

\* BaseTracer::new_span up to the call of span_create: takes the lock
p_new_span(t, meta, is_root, parent) ==
    LET a == alloc_span(meta)
        par == resolve_parent(SPAN_STACK[t], is_root, parent)
    IN  /\ pc[t] = "idle" /\ mutex = 0
        /\ Cardinality(DOMAIN spans_by_id) < MaxSpans
        /\ ProfOp
        /\ mutex' = t
        /\ counter' = a.counter
        /\ spans_by_meta' = a.spans_by_meta
        /\ spans_by_id' = a.spans_by_id
        /\ pend' = [pend EXCEPT ![t] = [id |-> a.span_id, meta |-> meta,
                                        parent |-> par, is_root |-> is_root,
                                        explicit |-> parent,
                                        top |-> current_span(SPAN_STACK[t]),
                                        new |-> a.new]]
        /\ pc' = [pc EXCEPT ![t] = IF a.new THEN "alloc" ELSE "visit"]
        /\ last' = [op |-> "new_span", t |-> t, id |-> a.span_id,
                    is_root |-> is_root, explicit |-> parent,
                    pre_count |-> a.pre_count,
                    calls |-> <<Call("span_create", a.span_id, a.new, par, 0)>>]
        /\ UNCHANGED <<SPAN_STACK, now, ghostCounters, spans, exited, chanVars,
                       workerVars, sent, expect,
                   joined, netVars, storeVars, unitVars>>

\* Profiler::span_create, `if new`: the Alloc command
span_create_alloc(t) ==
    /\ pc[t] = "alloc"
    /\ can_send(ch_span_control)
    /\ ch_span_control' = blocking_send(ch_span_control,
                                        Alloc(pend[t].id, pend[t].meta))
    /\ pc' = [pc EXCEPT ![t] = "visit"]
    /\ UNCHANGED <<coreVars, obsVars, spans, mutex, pend, exited, ch_span,
                   ch_event, ch_control, workerVars, sent, expect,
                   joined, netVars, storeVars, unitVars>>

\* Profiler::span_create, the visitor and the UpdateParent command; new_span
\* then returns and releases the lock
span_create_visit(t) ==
    LET id == pend[t].id
        parent == map_get_id(pend[t].parent)
        seen == id \in DOMAIN spans
        r == IF seen THEN reset(spans[id], parent)
             ELSE [visitor |-> SpanVisitor_new(get_id(id), parent), changed |-> TRUE]
    IN  /\ pc[t] = "visit"
        /\ r.changed => can_send(ch_span_control)
        /\ spans' = [i \in DOMAIN spans \cup {id} |->
                        IF i = id THEN r.visitor ELSE spans[i]]
        /\ ch_span_control' = IF r.changed
                              THEN blocking_send(ch_span_control, UpdateParent(id, parent))
                              ELSE ch_span_control
        \* the calls whose UpdateParent went into the channel, in order
        /\ expect' = IF r.changed /\ worker # "exited"
                     THEN Append(expect, pend[t])
                     ELSE expect
        /\ pc' = [pc EXCEPT ![t] = "idle"]
        /\ pend' = [pend EXCEPT ![t] = NoPend]
        /\ mutex' = 0
        /\ UNCHANGED <<coreVars, obsVars, exited, ch_span, ch_event, ch_control,
                       workerVars, sent,
                   joined, netVars, storeVars, unitVars>>

\* BaseTracer::record_follows_from -> Profiler::span_follows_from
p_record_follows_from(t, id, follows) ==
    /\ pc[t] = "idle"
    /\ ProfOp
    /\ can_send(ch_span_control)
    /\ ch_span_control' = blocking_send(ch_span_control, Follows(id, follows))
    /\ last' = NoLast
    /\ UNCHANGED <<coreVars, ghostCounters, sinkVars, ch_span, ch_event,
                   ch_control, workerVars, sent, expect,
                   joined, netVars, storeVars, unitVars>>

\* BaseTracer::event -> Profiler::event
p_event(t) ==
    /\ pc[t] = "idle"
    /\ ProfOp
    /\ can_send(ch_event)
    /\ ch_event' = blocking_send(ch_event,
                        EventLog_new(map_get_id(current_span(SPAN_STACK[t]))))
    /\ last' = NoLast
    /\ UNCHANGED <<coreVars, ghostCounters, sinkVars, ch_span_control, ch_span,
                   ch_control, workerVars, sent, expect,
                   joined, netVars, storeVars, unitVars>>

\* BaseTracer::enter -> Profiler::span_enter (which does nothing)
p_enter(t, id) ==
    /\ pc[t] = "idle"
    /\ ProfOp
    /\ TotalFrames < MaxFrames
    /\ SPAN_STACK' = [SPAN_STACK EXCEPT ![t] = push_span(@, id)]
    /\ last' = NoLast
    /\ UNCHANGED <<spans_by_meta, spans_by_id, counter, now, ghostCounters,
                   profVars>>

\* BaseTracer::exit -> Profiler::span_exit
p_exit(t, id) ==
    LET r == pop_span(SPAN_STACK[t], id)
        msg == set_duration(spans[id].msg, r.duration)
    IN  /\ pc[t] = "idle"
        /\ ProfOp
        /\ SPAN_STACK' = [SPAN_STACK EXCEPT ![t] = r.stack]
        /\ last' = NoLast
        /\ IF r.found
           THEN /\ can_send(ch_span)
                /\ spans' = [spans EXCEPT ![id].msg = msg]
                /\ ch_span' = blocking_send(ch_span, msg)
                \* the logs that went into the channel
                /\ sent' = IF worker # "exited"
                           THEN [sent EXCEPT ![msg.id] = @ + 1]
                           ELSE sent
           ELSE UNCHANGED <<spans, ch_span, sent>>
        /\ UNCHANGED <<spans_by_meta, spans_by_id, counter, now, ghostCounters,
                       mutex, pc, pend, exited, ch_span_control, ch_event,
                       ch_control, workerVars, expect,
                   joined, netVars, storeVars, unitVars>>

\* BaseTracer::try_close -> Profiler::span_destroy (which does nothing)
p_try_close(t, id) ==
    LET c == close_span(id) IN
    /\ pc[t] = "idle" /\ mutex = 0
    /\ ProfOp
    /\ spans_by_meta' = c.spans_by_meta
    /\ spans_by_id' = c.spans_by_id
    /\ last' = NoLast
    /\ UNCHANGED <<counter, SPAN_STACK, now, ghostCounters, profVars>>

\* Guard::drop -> ProfilerState::terminate, up to the join
terminate ==
    /\ ~exited
    /\ exited' = TRUE
    /\ can_send(ch_control)
    /\ ch_control' = blocking_send(ch_control, [ty |-> "Terminate"])
    /\ UNCHANGED <<coreVars, obsVars, spans, mutex, pc, pend, ch_span_control,
                   ch_span, ch_event, workerVars, sent, expect,
                   joined, netVars, storeVars, unitVars>>

\* ------------------------------------------------------------- the worker
\* handle_span_data taking every duration as the new minimum
handle_span_data_minlast(log) ==
    IF log.id \in DOMAIN span_data
    THEN LET data == span_data[log.id]
             duration == log.duration
             run_count == data.run_count + 1
             d1 == IF run_count > OVERFLOW_LIMIT
                   THEN [data EXCEPT !.total_time = 0, !.run_count = 0,
                                     !.has_overflowed = TRUE]
                   ELSE [data EXCEPT !.run_count = run_count]
             d2 == IF duration > d1.max_time
                   THEN [d1 EXCEPT !.max_time = duration] ELSE d1
             d3 == [d2 EXCEPT !.min_time = duration]
         IN  [span_data EXCEPT ![log.id] = [d3 EXCEPT !.total_time = @ + duration]]
    ELSE span_data

\* handle_span_data taking every duration as the new maximum
handle_span_data_maxlast(log) ==
    IF log.id \in DOMAIN span_data
    THEN LET data == span_data[log.id]
             duration == log.duration
             run_count == data.run_count + 1
             d1 == IF run_count > OVERFLOW_LIMIT
                   THEN [data EXCEPT !.total_time = 0, !.run_count = 0,
                                     !.has_overflowed = TRUE]
                   ELSE [data EXCEPT !.run_count = run_count]
             d2 == [d1 EXCEPT !.max_time = duration]
             d3 == IF duration < d2.min_time
                   THEN [d2 EXCEPT !.min_time = duration] ELSE d2
         IN  [span_data EXCEPT ![log.id] = [d3 EXCEPT !.total_time = @ + duration]]
    ELSE span_data

\* Thread::handle_span_data: the SpanData of the log's node, and the others
handle_span_data(log) ==
    IF log.id \in DOMAIN span_data
    THEN LET data == span_data[log.id]
             duration == log.duration
             run_count == data.run_count + 1
             d1 == IF run_count > OVERFLOW_LIMIT
                   THEN [data EXCEPT !.total_time = 0, !.run_count = 0,
                                     !.has_overflowed = TRUE]
                   ELSE [data EXCEPT !.run_count = run_count]
             d2 == IF duration > d1.max_time
                   THEN [d1 EXCEPT !.max_time = duration] ELSE d1
             d3 == IF duration < d2.min_time
                   THEN [d2 EXCEPT !.min_time = duration] ELSE d2
         IN  [span_data EXCEPT ![log.id] = [d3 EXCEPT !.total_time = @ + duration]]
    ELSE span_data

\* Thread::handle_span_control: the message it writes
handle_span_control(cmd) ==
    IF cmd.ty = "Alloc"
    THEN Msg("SpanAlloc", get_id(cmd.id), 0)
    ELSE IF cmd.ty = "UpdateParent"
    THEN Msg("SpanParent", get_id(cmd.id), unwrap_or(cmd.parent, 0))
    ELSE Msg("SpanFollows", get_id(cmd.id), get_id(cmd.follows))

\* Thread::handle_event: the message it writes
handle_event(ev) == Msg("SpanEvent", unwrap_or(ev.id, 0), 0)

\* Net::network_write: the header goes to the socket; when write_all returns
\* Err, the error is printed and the call returns
network_write(header) ==
    IF socket = "open"
    THEN [wire |-> Append(wire, header), net_errors |-> net_errors]
    ELSE [wire |-> wire, net_errors |-> IF net_errors < MaxErrors
                                        THEN net_errors + 1 ELSE net_errors]

\* Thread::run, select! takes the span branch
run_span ==
    /\ worker = "running"
    /\ Len(ch_span) > 0
    /\ span_data' = handle_span_data(Head(ch_span))
    /\ ch_span' = Tail(ch_span)
    /\ UNCHANGED <<coreVars, obsVars, sinkVars, ch_span_control, ch_event,
                   ch_control, worker, wire, sent, expect,
                   joined, netVars, storeVars, unitVars>>

\* a select! without the span_control branch
run_span_control_idle ==
    /\ worker = "running"
    /\ Len(ch_span_control) > MaxQueue
    /\ UNCHANGED vars

\* Thread::run, select! takes the span_control branch
run_span_control ==
    LET cmd == Head(ch_span_control) IN
    /\ worker = "running"
    /\ Len(ch_span_control) > 0
    /\ span_data' = IF cmd.ty = "Alloc"
                    THEN [n \in DOMAIN span_data \cup {get_id(cmd.id)} |->
                            IF n = get_id(cmd.id) THEN SpanData_new ELSE span_data[n]]
                    ELSE span_data
    /\ wire' = network_write(handle_span_control(cmd)).wire
    /\ net_errors' = network_write(handle_span_control(cmd)).net_errors
    /\ ch_span_control' = Tail(ch_span_control)
    /\ UNCHANGED <<coreVars, obsVars, sinkVars, ch_span, ch_event, ch_control,
                   worker, sent, expect, joined, socket, storeVars, unitVars>>

\* Thread::run, select! takes the event branch
run_event ==
    /\ worker = "running"
    /\ Len(ch_event) > 0
    /\ wire' = network_write(handle_event(Head(ch_event))).wire
    /\ net_errors' = network_write(handle_event(Head(ch_event))).net_errors
    /\ ch_event' = Tail(ch_event)
    /\ UNCHANGED <<coreVars, obsVars, sinkVars, ch_span_control, ch_span,
                   ch_control, worker, span_data, sent, expect, joined, socket, storeVars, unitVars>>

\* Thread::run, the control branch with a Terminate that does not break
run_control_nobreak ==
    /\ worker = "running"
    /\ Len(ch_control) > 0
    /\ ch_control' = Tail(ch_control)
    /\ UNCHANGED <<coreVars, obsVars, sinkVars, ch_span_control, ch_span,
                   ch_event, workerVars, sent, expect, joined, netVars, storeVars, unitVars>>

\* Thread::run, select! takes the control branch: Project is written,
\* Terminate breaks the loop and the receivers are dropped
run_control ==
    /\ worker = "running"
    /\ Len(ch_control) > 0
    /\ IF Head(ch_control).ty = "Project"
       THEN /\ wire' = network_write(Msg("Project", 0, 0)).wire
            /\ net_errors' = network_write(Msg("Project", 0, 0)).net_errors
            /\ ch_control' = Tail(ch_control)
            /\ UNCHANGED <<worker, ch_span_control, ch_span, ch_event>>
       ELSE /\ worker' = "exited"
            /\ ch_control' = <<>>
            /\ ch_span_control' = <<>>
            /\ ch_span' = <<>>
            /\ ch_event' = <<>>
            /\ UNCHANGED <<wire, net_errors>>
    /\ UNCHANGED <<coreVars, obsVars, sinkVars, span_data, sent, expect,
                   joined, socket, storeVars, unitVars>>

\* the clock read by Instant::now advances between two calls
p_tick ==
    /\ ProfOp
    /\ now < MaxTime
    /\ now' = now + 1
    /\ UNCHANGED <<spans_by_meta, spans_by_id, counter, SPAN_STACK, last,
                   ghostCounters, profVars>>

NextProf ==
    \/ p_tick
    \/ \E t \in Threads, meta \in CallSites, is_root \in BOOLEAN,
          parent \in {NoSpan} \cup Returned :
            p_new_span(t, meta, is_root, parent)
    \/ \E t \in Threads : span_create_alloc(t)
    \/ \E t \in Threads : span_create_visit(t)
    \/ \E t \in Threads, id \in Returned, follows \in Returned :
            p_record_follows_from(t, id, follows)
    \/ \E t \in Threads : p_event(t)
    \/ \E t \in Threads, id \in Returned : p_enter(t, id)
    \/ \E t \in Threads, id \in DOMAIN spans : p_exit(t, id)
    \/ \E t \in Threads, id \in Returned : p_try_close(t, id)
    \/ terminate
    \/ run_span
    \/ run_span_control
    \/ run_event
    \/ run_control

\* the calls of the producers and the worker, up to the join of terminate
SpecProf == InitProf /\ [][NextProf]_vars

\* ProfilerState::terminate, the join: it returns once the worker thread
\* has ended
join ==
    /\ exited /\ ~joined
    /\ worker = "exited"
    /\ joined' = TRUE
    /\ UNCHANGED <<coreVars, obsVars, sinkVars, chanVars, workerVars, sent,
                   expect, netVars, storeVars, unitVars>>

\* the peer closes the connection: every later write_all returns Err
peer_closes ==
    /\ socket = "open"
    /\ socket' = "closed"
    /\ UNCHANGED <<coreVars, obsVars, sinkVars, chanVars, workerVars, sent,
                   expect, joined, net_errors, storeVars, unitVars>>

\* The same system with a peer that may go away, over MaxLiveOps calls of
\* the producers.  tokio::select! picks among its ready branches at random,
\* so a branch that stays ready is taken eventually; a thread blocked in
\* JoinHandle::join resumes once the worker thread has ended.
NextLive ==
    \/ nops < MaxLiveOps /\ p_tick
    \/ \E t \in Threads, meta \in CallSites, is_root \in BOOLEAN,
          parent \in {NoSpan} \cup Returned :
            nops < MaxLiveOps /\ p_new_span(t, meta, is_root, parent)
    \/ \E t \in Threads : span_create_alloc(t)
    \/ \E t \in Threads : span_create_visit(t)
    \/ \E t \in Threads, id \in Returned, follows \in Returned :
            nops < MaxLiveOps /\ p_record_follows_from(t, id, follows)
    \/ \E t \in Threads : nops < MaxLiveOps /\ p_event(t)
    \/ \E t \in Threads, id \in Returned : nops < MaxLiveOps /\ p_enter(t, id)
    \/ \E t \in Threads, id \in DOMAIN spans : nops < MaxLiveOps /\ p_exit(t, id)
    \/ \E t \in Threads, id \in Returned : nops < MaxLiveOps /\ p_try_close(t, id)
    \/ terminate
    \/ join
    \/ run_span
    \/ run_span_control
    \/ run_event
    \/ run_control
    \/ peer_closes

SpecLive ==
    /\ InitProf
    /\ [][NextLive]_vars
    /\ WF_vars(run_span) /\ WF_vars(run_span_control)
    /\ WF_vars(run_event) /\ WF_vars(run_control)
    /\ WF_vars(join)

\* ========================================================================
\* SpanStore of src/profiler/thread/store.rs, driven by the worker: one
\* call of record per SpanLog, start_recording / stop_recording per
\* ClientRecord.  Durations and the clock are in whole milliseconds.

Min(a, b) == IF a < b THEN a ELSE b

Max(a, b) == IF a > b THEN a ELSE b

\* the ClientConfig values a peer may send
ClientConfigs ==
    [max_average_points : {MaxAveragePoints},
     record : [max_rows : 0..(GlobalMaxRows + 1), enable : BOOLEAN],
     period : 0..(MinPeriod + 1)]

SpanStore_new(global_max_rows, min_period, config) ==
    [span_data |-> <<>>,
     max_rows |-> IF config.record.max_rows > global_max_rows
                  THEN global_max_rows ELSE config.record.max_rows,
     global_max_rows |-> global_max_rows,
     max_average_points |-> config.max_average_points,
     enable_recording |-> config.record.enable,
     period |-> IF config.period < min_period THEN min_period ELSE config.period]

\* the SpanData of a node the store has just been told of
StoreSpanData_new ==
    [row_count |-> 0, runs_file |-> <<>>, last_display_time |-> now,
     average_run_count |-> 0, min_time |-> 0, max_time |-> Duration_MAX,
     total_time |-> 0]

\* SpanData::update
update(data, duration, max_average_points) ==
    LET count == data.average_run_count + 1
        d1 == [data EXCEPT !.min_time = Min(@, duration),
                           !.max_time = Max(@, duration)]
        d2 == IF count >= max_average_points
              THEN [d1 EXCEPT !.average_run_count = 0, !.total_time = 0]
              ELSE [d1 EXCEPT !.average_run_count = count]
    IN  [d2 EXCEPT !.total_time = @ + duration]

NoWindow == [logs |-> 0, last_update |-> -1]

\* `as u16` of Duration::as_millis
as_u16(n) == n % 65536

InitStore ==
    /\ InitUnits
    /\ spans_by_meta = <<>>
    /\ spans_by_id = <<>>
    /\ counter = 1
    /\ SPAN_STACK = [t \in Threads |-> <<>>]
    /\ now = 0
    /\ last = NoLast
    /\ handles = [i \in AllIds |-> 0]
    /\ nclone = [i \in AllIds |-> 0]
    /\ nclose = [i \in AllIds |-> 0]
    /\ nops = 0
    /\ spans = <<>>
    /\ mutex = 0
    /\ pc = [t \in Threads |-> "idle"]
    /\ pend = [t \in Threads |-> NoPend]
    /\ exited = FALSE
    /\ joined = FALSE
    /\ ch_span_control = <<>>
    /\ ch_span = <<>>
    /\ ch_event = <<>>
    /\ ch_control = <<>>
    /\ worker = "running"
    /\ span_data = <<>>
    /\ wire = <<>>
    /\ socket = "open"
    /\ net_errors = 0
    /\ sent = [n \in 1..NumCallSites |-> 0]
    /\ expect = <<>>
    /\ \E config \in ClientConfigs :
          store = SpanStore_new(GlobalMaxRows, MinPeriod, config)
    /\ window = <<>>

notStore ==
    <<spans_by_meta, spans_by_id, counter, SPAN_STACK, last, handles, nclone,
      nclose, sinkVars, chanVars, worker, span_data, socket, net_errors, sent,
      expect, joined, unitVars>>

StoreOp == nops < MaxStoreOps /\ nops' = nops + 1

\* time passes between two calls
store_tick ==
    /\ now < MaxClock
    /\ now' = now + 1
    /\ UNCHANGED <<notStore, nops, wire, storeVars, unitVars>>

\* the node of a SpanAlloc is entered in span_data
store_alloc(n) ==
    /\ StoreOp
    /\ n \notin DOMAIN store.span_data
    /\ store' = [store EXCEPT !.span_data =
                    [k \in DOMAIN @ \cup {n} |->
                        IF k = n THEN StoreSpanData_new ELSE @[k]]]
    /\ window' = [k \in DOMAIN window \cup {n} |->
                    IF k = n THEN NoWindow ELSE window[k]]
    /\ UNCHANGED <<notStore, now, wire>>

\* SpanStore::start_recording
start_recording(max_rows) ==
    /\ StoreOp
    /\ store' = [store EXCEPT
                    !.max_rows = IF max_rows > store.global_max_rows
                                 THEN store.global_max_rows ELSE max_rows,
                    !.enable_recording = TRUE]
    \* a recording window opens
    /\ window' = [k \in DOMAIN window |-> [window[k] EXCEPT !.logs = 0]]
    /\ UNCHANGED <<notStore, now, wire>>

\* the SpanDataset of a node: the header and the payload written with it
SpanDataset(k, v) ==
    [ty |-> "SpanDataset", id |-> k, run_count |-> v.row_count,
     size |-> Len(v.runs_file), payload |-> v.runs_file]

RECURSIVE Datasets(_, _)
\* the messages of stop_recording for the nodes left to visit, lowest first
Datasets(data, left) ==
    IF left = {} THEN <<>>
    ELSE LET k == CHOOSE x \in left : \A y \in left : x <= y
         IN  <<SpanDataset(k, data[k])>> \o Datasets(data, left \ {k})

\* SpanStore::stop_recording
stop_recording ==
    /\ StoreOp
    /\ wire' = wire \o Datasets(store.span_data, DOMAIN store.span_data)
    /\ store' = [store EXCEPT
                    !.enable_recording = FALSE,
                    !.span_data = [k \in DOMAIN @ |->
                        [@[k] EXCEPT !.row_count = 0, !.runs_file = <<>>]]]
    /\ window' = [k \in DOMAIN window |-> [window[k] EXCEPT !.logs = 0]]
    /\ UNCHANGED <<notStore, now>>

\* SpanStore::record of a log of node n; gap is the time between the two
\* readings of Instant::now() in it.  Returns the store and Some(SpanUpdate)
\* or None.
record(n, duration, gap) ==
    IF n \in DOMAIN store.span_data
    THEN LET data == update(store.span_data[n], duration,
                            store.max_average_points)
             d1 == IF store.enable_recording /\ data.row_count < store.max_rows
                   THEN [data EXCEPT !.row_count = @ + 1,
                                     !.runs_file = Append(@, duration)]
                   ELSE data
             elapsed == (now + gap) - d1.last_display_time
             push == as_u16(elapsed) > store.period
             d2 == IF push THEN [d1 EXCEPT !.last_display_time = now] ELSE d1
         IN  [store |-> [store EXCEPT !.span_data[n] = d2],
              some |-> push,
              update |-> [ty |-> "SpanUpdate", id |-> n,
                          run_count |-> d2.row_count,
                          average_time |-> IF d2.average_run_count = 0 THEN 0
                                           ELSE d2.total_time \div d2.average_run_count,
                          min_time |-> d2.min_time, max_time |-> d2.max_time]]
    ELSE [store |-> store, some |-> FALSE, update |-> [ty |-> "none"]]

\* the worker passes a SpanLog to the store and writes the SpanUpdate, if any
store_record(n, duration, gap) ==
    LET r == record(n, duration, gap) IN
    /\ StoreOp
    /\ now + gap <= MaxClock
    /\ now' = now + gap
    /\ store' = r.store
    /\ wire' = IF r.some THEN Append(wire, r.update) ELSE wire
    /\ window' = IF n \in DOMAIN window
                 THEN [window EXCEPT
                        ![n].logs = IF store.enable_recording THEN @ + 1 ELSE @,
                        ![n].last_update = IF r.some THEN now + gap ELSE @]
                 ELSE window
    /\ UNCHANGED notStore

NextStore ==
    \/ store_tick
    \/ \E n \in StoreNodes : store_alloc(n)
    \/ \E max_rows \in 0..(GlobalMaxRows + 1) : start_recording(max_rows)
    \/ stop_recording
    \/ \E n \in StoreNodes, duration \in 0..MaxDuration, gap \in 0..MaxGap :
            store_record(n, duration, gap)

SpecStore == InitStore /\ [][NextStore]_vars

\* ========================================================================
\* The aggregates of Thread::handle_span_data over a run of logs: the worker
\* registering nodes and applying SpanLogs, also when a node's run_count is
\* about to pass OVERFLOW_LIMIT.

\* SpanData::get_average
get_average(data) ==
    IF data.run_count = 0 THEN 0 ELSE data.total_time \div data.run_count

\* a node after OVERFLOW_LIMIT - 1 logs, all of duration 0 or all of the
\* longest duration
NearOverflow ==
    {[SpanData_new EXCEPT !.run_count = OVERFLOW_LIMIT - 1, !.total_time = t] :
        t \in {0, (OVERFLOW_LIMIT - 1) * MaxLogDuration}}

InitAgg ==
    /\ InitUnits
    /\ spans_by_meta = <<>>
    /\ spans_by_id = <<>>
    /\ counter = 1
    /\ SPAN_STACK = [t \in Threads |-> <<>>]
    /\ now = 0
    /\ last = NoLast
    /\ handles = [i \in AllIds |-> 0]
    /\ nclone = [i \in AllIds |-> 0]
    /\ nclose = [i \in AllIds |-> 0]
    /\ nops = 0
    /\ spans = <<>>
    /\ mutex = 0
    /\ pc = [t \in Threads |-> "idle"]
    /\ pend = [t \in Threads |-> NoPend]
    /\ exited = FALSE
    /\ joined = FALSE
    /\ ch_span_control = <<>>
    /\ ch_span = <<>>
    /\ ch_event = <<>>
    /\ ch_control = <<>>
    /\ worker = "running"
    /\ \/ span_data = <<>>
       \/ \E data \in NearOverflow : span_data = <<data>>
    /\ wire = <<>>
    /\ socket = "open"
    /\ net_errors = 0
    /\ sent = [n \in 1..NumCallSites |-> 0]
    /\ expect = <<>>
    /\ store = NoStore
    /\ window = <<>>

notAgg ==
    <<coreVars, handles, nclone, nclose, sinkVars, chanVars, worker, wire, sent,
      expect, joined, netVars, storeVars, unitVars>>

AggOp == nops < MaxAggOps /\ nops' = nops + 1

\* Thread::handle_span_control, Alloc: the node gets a new SpanData
agg_alloc(n) ==
    /\ AggOp
    /\ n \notin DOMAIN span_data
    /\ span_data' = [k \in DOMAIN span_data \cup {n} |->
                        IF k = n THEN SpanData_new ELSE span_data[k]]
    /\ last' = [op |-> "alloc", id |-> n, duration |-> 0, registered |-> FALSE]
    /\ UNCHANGED notAgg

\* Thread::handle_span_data of a log of node n
agg_log(n, duration) ==
    /\ AggOp
    /\ span_data' = handle_span_data([id |-> n, duration |-> duration])
    /\ last' = [op |-> "span_log", id |-> n, duration |-> duration,
                registered |-> n \in DOMAIN span_data]
    /\ UNCHANGED notAgg

NextAgg ==
    \/ \E n \in 1..NumCallSites : agg_alloc(n)
    \/ \E n \in 1..NumCallSites, duration \in 0..MaxLogDuration :
            agg_log(n, duration)

SpecAgg == InitAgg /\ [][NextAgg]_vars

\* ========================================================================
\* The program's variables at rest, for the specifications that examine one
\* unit on its own

InitQuiet ==
    /\ spans_by_meta = <<>>
    /\ spans_by_id = <<>>
    /\ counter = 1
    /\ SPAN_STACK = [t \in Threads |-> <<>>]
    /\ now = 0
    /\ last = NoLast
    /\ handles = [i \in AllIds |-> 0]
    /\ nclone = [i \in AllIds |-> 0]
    /\ nclose = [i \in AllIds |-> 0]
    /\ nops = 0
    /\ spans = <<>>
    /\ mutex = 0
    /\ pc = [t \in Threads |-> "idle"]
    /\ pend = [t \in Threads |-> NoPend]
    /\ exited = FALSE
    /\ joined = FALSE
    /\ socket = "open"
    /\ net_errors = 0
    /\ store = NoStore
    /\ window = <<>>
    /\ ch_span_control = <<>>
    /\ ch_span = <<>>
    /\ ch_event = <<>>
    /\ ch_control = <<>>
    /\ span_data = <<>>
    /\ wire = <<>>
    /\ sent = [n \in 1..NumCallSites |-> 0]
    /\ expect = <<>>
    /\ thread = "Some"

\* everything but the unit's own variable
notHello ==
    <<coreVars, obsVars, sinkVars, chanVars, workerVars, sent, expect, joined,
      netVars, storeVars, log_msg, net, filter, guardVars, thread>>

\* ========================================================================
\* The Hello packet of src/profiler/network_types/version.rs.  A signature
\* and a pre-release tag are numbered; signature 1 is SIGNATURE.

NumSignatures == 2
MaxMajor == 2
NumTags == 2

SIGNATURE == 1

\* Hello::new
Hello_new(major, pre_release) ==
    [signature |-> SIGNATURE,
     version |-> [major |-> major, pre_release |-> pre_release]]

\* the values Hello::from_bytes can give for the 40 bytes a peer sends
Hellos ==
    [signature : 1..NumSignatures,
     version : [major : 0..MaxMajor,
                pre_release : {None32} \cup {Some32(g) : g \in 1..NumTags}]]

\* Hello::matches
matches(self, other) ==
    IF self.signature # other.signature THEN "SignatureMismatch"
    ELSE LET a == self.version.pre_release
             b == other.version.pre_release
             val == IF a.some /\ b.some THEN a.v = b.v
                    ELSE IF ~a.some /\ ~b.some
                         THEN self.version.major = other.version.major
                         ELSE FALSE
         IN  IF val THEN "Ok" ELSE "VersionMismatch"

\* the packet version_inject.rs builds from the crate version
HELLO_PACKET == Hello_new(1, None32)

InitHello ==
    /\ InitQuiet
    /\ worker = "running"
    /\ hello \in [server : Hellos, client : Hellos, result : {"none"}]
    /\ log_msg = "none"
    /\ net = "none"
    /\ filter = "none"
    /\ LOG_BUFFER_RC = 0
    /\ STDOUT_DISABLE_RC = 0
    /\ logger = [log_buffer |-> FALSE, stdout |-> TRUE]
    /\ guards = [t \in Threads |-> "none"]

\* server.matches(&client), as handle_hello calls it
call_matches ==
    /\ hello.result = "none"
    /\ hello' = [hello EXCEPT !.result = matches(hello.server, hello.client)]
    /\ UNCHANGED notHello

NextHello == call_matches

SpecHello == InitHello /\ [][NextHello]_vars

\* ------------------------------------------------------------------------
\* The start of the worker: run -> init -> Thread::run
\* (src/profiler/thread/core.rs), with the peer's Hello drawn from Hellos

MaxInitOps == 2

InitInit ==
    /\ InitQuiet
    /\ worker = "init"
    /\ \E client \in Hellos :
          hello = [server |-> HELLO_PACKET, client |-> client, result |-> "none"]
    /\ log_msg = "none"
    /\ net = "none"
    /\ filter = "none"
    /\ LOG_BUFFER_RC = 0
    /\ STDOUT_DISABLE_RC = 0
    /\ logger = [log_buffer |-> FALSE, stdout |-> TRUE]
    /\ guards = [t \in Threads |-> "none"]

\* init: bind and accept; the call of handle_hello is commented out, so the
\* socket is returned as accepted.  On Ok, run reports it and enters
\* Thread::run, and Profiler::new sends Project; on Err the worker returns.
init ==
    /\ worker = "init"
    /\ \E res \in {"Ok", "Err"} :
          IF res = "Ok"
          THEN /\ worker' = "running"
               /\ ch_control' = Append(ch_control, [ty |-> "Project"])
          ELSE /\ worker' = "exited"
               /\ UNCHANGED ch_control
    /\ UNCHANGED <<coreVars, obsVars, sinkVars, ch_span_control, ch_span,
                   ch_event, span_data, wire, sent, expect, joined, netVars,
                   storeVars, unitVars>>

NextInit ==
    \/ init
    \/ \E t \in Threads : worker # "init" /\ nops < MaxInitOps /\ p_event(t)
    \/ worker # "init" /\ terminate
    \/ run_event
    \/ run_control

SpecInit == InitInit /\ [][NextInit]_vars

\* ========================================================================
\* The fixed-capacity log records of src/profiler/log_msg.rs.  A byte is
\* 0..255; a slot of the buffer nothing was written to holds Uninit.

CTRL_LOG_SPAN == 7
CTRL_LOG_EVENT == 16

\* MaybeUninit::uninit()
Uninit == -1

MaxLogOps == 3
MaxWrite == 600

\* buffer.len()
buffer_len(kind) ==
    IF kind = "SpanLog" THEN 512 - CTRL_LOG_SPAN ELSE 512 - CTRL_LOG_EVENT

\* Log::write_single
write_single(l, val) ==
    LET len == Min(1, buffer_len(l.kind) - l.msg_len) IN
    IF len > 0
    THEN [l EXCEPT !.buffer = [@ EXCEPT ![l.msg_len + 1] = val],
                   !.msg_len = l.msg_len + 1,
                   !.stored = Append(@, val)]
    ELSE l

\* write_multiple without the clamp to the free space
write_multiple_noclamp(l, buf) ==
    LET len == Len(buf) IN
    [log |-> [l EXCEPT !.buffer = [i \in DOMAIN l.buffer |->
                                     IF i > l.msg_len /\ i <= l.msg_len + len
                                     THEN buf[i - l.msg_len] ELSE l.buffer[i]],
                       !.msg_len = l.msg_len + len,
                       !.stored = @ \o buf],
     len |-> len]

\* Log::write_multiple: returns the log and the number of bytes taken
write_multiple(l, buf) ==
    LET len == Min(Len(buf), buffer_len(l.kind) - l.msg_len) IN
    [log |-> IF len > 0
             THEN [l EXCEPT !.buffer = [i \in DOMAIN l.buffer |->
                                          IF i > l.msg_len /\ i <= l.msg_len + len
                                          THEN buf[i - l.msg_len] ELSE l.buffer[i]],
                            !.msg_len = l.msg_len + len,
                            !.stored = @ \o SubSeq(buf, 1, len)]
             ELSE l,
     len |-> len]

\* Log::increment_var_count, var_count being a u8
increment_var_count(l) == [l EXCEPT !.var_count = (@ + 1) % 256]

\* the k little-endian bytes of n
le_bytes(n, k) == [i \in 1..k |-> (n \div (256 ^ (i - 1))) % 256]

\* SpanLog::new: msg_len starts at 1, the first slot is kept for var_count.
\* `stored` lists the bytes the writes have put after that slot and
\* `finished` tells whether write_finish has filled it.
SpanLog_buffer ==
    [kind |-> "SpanLog",
     buffer |-> [i \in 1..buffer_len("SpanLog") |-> Uninit],
     msg_len |-> 1, var_count |-> 0, duration_secs |-> 0, duration_nanos |-> 0,
     stored |-> <<>>, finished |-> FALSE]

\* EventLog::new
EventLog_buffer(module, target) ==
    LET l0 == [kind |-> "EventLog",
               buffer |-> [i \in 1..buffer_len("EventLog") |-> Uninit],
               msg_len |-> 1, var_count |-> 0, duration_secs |-> 0,
               duration_nanos |-> 0, stored |-> <<>>, finished |-> FALSE]
        l1 == write_multiple(l0, target).log
        l2 == write_single(l1, 0)
        l3 == write_multiple(l2, module).log
    IN  write_single(l3, 0)

\* SpanLog::write_finish / EventLog::write_finish; write_le hands the bytes
\* to write and its result is dropped
write_finish(l) ==
    LET l1 == [l EXCEPT !.buffer = [@ EXCEPT ![1] = l.var_count],
                        !.finished = TRUE]
    IN  IF l.kind = "SpanLog"
        THEN write_multiple(write_multiple(l1, le_bytes(l.duration_secs, 4)).log,
                            le_bytes(l.duration_nanos, 4)).log
        ELSE l1

\* SpanLog::clear
clear(l) == [l EXCEPT !.msg_len = 1, !.var_count = 0, !.stored = <<>>,
                      !.finished = FALSE]

\* as_bytes: &buffer[..msg_len]
as_bytes(l) == SubSeq(l.buffer, 1, l.msg_len)

Fill(b, n) == [i \in 1..n |-> b]

\* the slices handed to write
WriteBufs ==
    {Fill(b, n) : b \in {65, 66}, n \in {0, 1, 2, MaxWrite \div 2, MaxWrite}}

notLog ==
    <<coreVars, handles, nclone, nclose, sinkVars, chanVars, workerVars, sent,
      expect, joined, netVars, storeVars, hello, net, filter, guardVars, thread>>

LogOp == nops < MaxLogOps /\ nops' = nops + 1

InitLog ==
    /\ InitQuiet
    /\ worker = "running"
    /\ hello = "none"
    /\ \/ log_msg = SpanLog_buffer
       \/ \E module \in {<<>>, <<109>>}, target \in {<<116>>} :
             log_msg = EventLog_buffer(module, target)
    /\ net = "none"
    /\ filter = "none"
    /\ LOG_BUFFER_RC = 0
    /\ STDOUT_DISABLE_RC = 0
    /\ logger = [log_buffer |-> FALSE, stdout |-> TRUE]
    /\ guards = [t \in Threads |-> "none"]

\* <SpanLog as std::io::Write>::write
log_write(buf) ==
    /\ LogOp
    /\ log_msg' = write_multiple(log_msg, buf).log
    /\ last' = [op |-> "write", buf |-> buf, pre_len |-> log_msg.msg_len,
                ret |-> [ok |-> TRUE, len |-> write_multiple(log_msg, buf).len]]
    /\ UNCHANGED notLog

log_write_single(val) ==
    /\ LogOp
    /\ log_msg' = write_single(log_msg, val)
    /\ last' = [op |-> "write_single", buf |-> <<val>>,
                pre_len |-> log_msg.msg_len, ret |-> [ok |-> TRUE, len |-> 0]]
    /\ UNCHANGED notLog

log_increment_var_count ==
    /\ LogOp
    /\ log_msg' = increment_var_count(log_msg)
    /\ last' = [op |-> "increment_var_count", buf |-> <<>>,
                pre_len |-> log_msg.msg_len, ret |-> [ok |-> TRUE, len |-> 0]]
    /\ UNCHANGED notLog

log_write_finish ==
    /\ LogOp
    /\ log_msg' = write_finish(log_msg)
    /\ last' = [op |-> "write_finish", buf |-> <<>>,
                pre_len |-> log_msg.msg_len, ret |-> [ok |-> TRUE, len |-> 0]]
    /\ UNCHANGED notLog

log_clear ==
    /\ LogOp
    /\ log_msg.kind = "SpanLog"
    /\ log_msg' = clear(log_msg)
    /\ last' = [op |-> "clear", buf |-> <<>>,
                pre_len |-> log_msg.msg_len, ret |-> [ok |-> TRUE, len |-> 0]]
    /\ UNCHANGED notLog

NextLog ==
    \/ \E buf \in WriteBufs : log_write(buf)
    \/ \E val \in {0, 255} : log_write_single(val)
    \/ log_increment_var_count
    \/ log_write_finish
    \/ log_clear

SpecLog == InitLog /\ [][NextLog]_vars

\* ------------------------------------------------------------------------
\* The fields of src/profiler/network_types/log.rs.  A u64 / i64 / f64 value
\* is its eight little-endian bytes (two's complement for i64), a bool one
\* byte, a string its bytes.

\* FieldType as u8
FieldType ==
    [I8 |-> 1, I16 |-> 2, I32 |-> 3, I64 |-> 4, U8 |-> 5, U16 |-> 6, U32 |-> 7,
     U64 |-> 8, F64 |-> 9, STR |-> 10, BOOL |-> 11]

\* v < 256^k for an unsigned v
below(v, k) == \A i \in (k + 1)..8 : v[i] = 0

\* v < 2^(8k - 1) for a signed v: every negative v is
signed_below(v, k) == v[8] >= 128 \/ (below(v, k) /\ v[k] < 128)

\* <FieldType as FieldValue>::write_field followed by the value's bytes
write_tagged(l, tag, bytes) ==
    write_multiple(write_single(l, tag), bytes).log

\* FieldValue::write_field for u64, i64, f64, bool and &str
write_field(l, value) ==
    LET v == value.v IN
    CASE value.ty = "u64" ->
            IF below(v, 1) THEN write_single(write_single(l, FieldType.U8), v[1])
            ELSE IF below(v, 2) THEN write_tagged(l, FieldType.U16, SubSeq(v, 1, 2))
            ELSE IF below(v, 4) THEN write_tagged(l, FieldType.U32, SubSeq(v, 1, 4))
            ELSE write_tagged(l, FieldType.U64, v)
      [] value.ty = "i64" ->
            IF signed_below(v, 1)
            THEN write_single(write_single(l, FieldType.I8), v[1])
            ELSE IF signed_below(v, 2)
                 THEN write_tagged(l, FieldType.I16, SubSeq(v, 1, 2))
            ELSE IF signed_below(v, 4)
                 THEN write_tagged(l, FieldType.I32, SubSeq(v, 1, 4))
            ELSE write_tagged(l, FieldType.I64, v)
      [] value.ty = "f64" -> write_tagged(l, FieldType.F64, v)
      [] value.ty = "bool" ->
            write_single(write_single(l, FieldType.BOOL), v[1])
      [] value.ty = "str" ->
            write_single(write_tagged(l, FieldType.STR, v), 0)

\* Field::write_into: the name and its NUL, the value, the count
Field_write_into(l, name, value) ==
    increment_var_count(
        write_field(write_single(write_multiple(l, name).log, 0), value))

\* the 64-bit patterns fields are tried with: k low bytes (first lo, last hi,
\* mid between) and the bytes above them all 0 or all 255
Int64(k, lo, mid, hi, fill) ==
    [i \in 1..8 |-> IF i > k THEN fill
                    ELSE IF i = k /\ k > 1 THEN hi
                    ELSE IF i = 1 THEN lo
                    ELSE mid]

Int64s ==
    {Int64(k, lo, mid, hi, fill) :
        k \in {1, 2, 4, 8}, lo \in {0, 1, 127, 128, 255},
        mid \in {0, 255}, hi \in {1, 127, 128, 255}, fill \in {0, 255}}

FieldValues ==
    [ty : {"u64", "i64"}, v : Int64s]
    \cup [ty : {"f64"}, v : {Int64(8, 0, 0, 64, 0)}]
    \cup [ty : {"bool"}, v : {<<0>>, <<1>>}]
    \cup [ty : {"str"}, v : {<<>>, <<115>>, <<115, 116>>}]

FieldNames == {<<110>>, <<110, 97>>}

InitField ==
    /\ InitQuiet
    /\ worker = "running"
    /\ hello = "none"
    /\ \/ log_msg = SpanLog_buffer
       \/ log_msg = EventLog_buffer(<<109>>, <<116>>)
    /\ net = "none"
    /\ filter = "none"
    /\ LOG_BUFFER_RC = 0
    /\ STDOUT_DISABLE_RC = 0
    /\ logger = [log_buffer |-> FALSE, stdout |-> TRUE]
    /\ guards = [t \in Threads |-> "none"]

\* Field::new(name, value).write_into(&mut log) on the fresh log
field_write_into(name, value) ==
    /\ last.op = "none"
    /\ log_msg' = Field_write_into(log_msg, name, value)
    /\ last' = [op |-> "write_into", name |-> name, value |-> value,
                pre_len |-> log_msg.msg_len]
    /\ nops' = nops + 1
    /\ UNCHANGED notLog

NextField ==
    \E name \in FieldNames, value \in FieldValues : field_write_into(name, value)

SpecField == InitField /\ [][NextField]_vars

\* ========================================================================
\* Net of src/profiler/thread/net.rs and the fixed-size messages of
\* src/profiler/network_types/message.rs.  serde writes a struct field by
\* field, little-endian; `header` is what message.serialize writes.

MaxNetOps == 2

\* MsgType as u8
MsgType ==
    [Project |-> 0, SpanAlloc |-> 1, SpanParent |-> 2, SpanFollows |-> 3,
     SpanEvent |-> 4, SpanUpdate |-> 5, SpanDataset |-> 6, ServerConfig |-> 7]

\* <u32 as MsgSize>::SIZE, <u16 as MsgSize>::SIZE, <Duration as MsgSize>::SIZE
MsgSize == [u32 |-> 4, u16 |-> 2, Duration |-> 8]

\* message::Duration, serialized
Duration(seconds, nano_seconds) ==
    le_bytes(seconds, MsgSize.u32) \o le_bytes(nano_seconds, MsgSize.u32)

SpanParent(id, parent_node) ==
    [TYPE |-> MsgType.SpanParent, SIZE |-> 8,
     header |-> le_bytes(id, 4) \o le_bytes(parent_node, 4)]

SpanFollows(id, follows) ==
    [TYPE |-> MsgType.SpanFollows, SIZE |-> 8,
     header |-> le_bytes(id, 4) \o le_bytes(follows, 4)]

SpanUpdate(id, run_count, average_time, min_time, max_time) ==
    [TYPE |-> MsgType.SpanUpdate, SIZE |-> 8 + MsgSize.Duration * 3,
     header |-> le_bytes(id, 4) \o le_bytes(run_count, 4) \o average_time
                    \o min_time \o max_time]

SpanDatasetMsg(id, run_count) ==
    [TYPE |-> MsgType.SpanDataset, SIZE |-> MsgSize.u32 * 2,
     header |-> le_bytes(id, 4) \o le_bytes(run_count, 4)]

ServerConfig(max_rows, min_period) ==
    [TYPE |-> MsgType.ServerConfig, SIZE |-> MsgSize.u32 + MsgSize.u16,
     header |-> le_bytes(max_rows, 4) \o le_bytes(min_period, 2)]

\* values whose last byte is not zero among them
NetIds == {1, 16909060}

FixedMessages ==
    {SpanParent(id, p) : id \in NetIds, p \in {0} \cup NetIds}
    \cup {SpanFollows(id, f) : id \in NetIds, f \in NetIds}
    \cup {SpanUpdate(id, 2, Duration(0, 7), Duration(0, 0), Duration(1, 999999999)) :
            id \in NetIds}
    \cup {SpanDatasetMsg(id, c) : id \in NetIds, c \in {0, 16909060}}
    \cup {ServerConfig(r, q) : r \in {0, 16909060}, q \in {1, 513}}

Payloads == {<<>>, <<49>>, <<49, 44, 50>>}

\* Net::new
Net_new == [fixed_buffer |-> [i \in 1..64 |-> 0], write |-> <<>>]

\* the cursor over fixed_buffer after M::TYPE and the message were serialized
serialize_fixed(n, message) ==
    LET bytes == <<message.TYPE>> \o message.header IN
    [i \in 1..64 |-> IF i <= Len(bytes) THEN bytes[i] ELSE n.fixed_buffer[i]]

\* Net::network_write_fixed
network_write_fixed(n, message) ==
    LET buf == serialize_fixed(n, message) IN
    [fixed_buffer |-> buf,
     write |-> n.write \o le_bytes(message.SIZE, 4)
                       \o SubSeq(buf, 1, message.SIZE)]

\* Net::network_write_fixed_payload
network_write_fixed_payload(n, message, buffer) ==
    LET buf == serialize_fixed(n, message) IN
    [fixed_buffer |-> buf,
     write |-> n.write \o le_bytes(message.SIZE + Len(buffer), 4)
                       \o SubSeq(buf, 1, message.SIZE) \o buffer]

notNet ==
    <<coreVars, handles, nclone, nclose, sinkVars, chanVars, workerVars, sent,
      expect, joined, netVars, storeVars, hello, log_msg, filter, guardVars, thread>>

NetOp == nops < MaxNetOps /\ nops' = nops + 1

InitNet ==
    /\ InitQuiet
    /\ worker = "running"
    /\ hello = "none"
    /\ log_msg = "none"
    /\ net = Net_new
    /\ filter = "none"
    /\ LOG_BUFFER_RC = 0
    /\ STDOUT_DISABLE_RC = 0
    /\ logger = [log_buffer |-> FALSE, stdout |-> TRUE]
    /\ guards = [t \in Threads |-> "none"]

net_write_fixed(message) ==
    /\ NetOp
    /\ net' = network_write_fixed(net, message)
    /\ last' = [op |-> "network_write_fixed", message |-> message,
                payload |-> <<>>, pre_len |-> Len(net.write)]
    /\ UNCHANGED notNet

net_write_fixed_payload(message, buffer) ==
    /\ NetOp
    /\ net' = network_write_fixed_payload(net, message, buffer)
    /\ last' = [op |-> "network_write_fixed_payload", message |-> message,
                payload |-> buffer, pre_len |-> Len(net.write)]
    /\ UNCHANGED notNet

NextNet ==
    \/ \E message \in FixedMessages : net_write_fixed(message)
    \/ \E message \in FixedMessages, buffer \in Payloads :
            net_write_fixed_payload(message, buffer)

SpecNet == InitNet /\ [][NextNet]_vars

\* ========================================================================
\* The reference-counted guards of src/lib.rs.  fetch_add / fetch_sub are
\* atomic; the call to bp3d_logger that follows the test of their result is
\* a later step of the same thread.

MaxGuardOps == 4

NoGuard == [pc |-> "idle", LogBuffer |-> 0, DisableStdoutLogger |-> 0]

notGuard ==
    <<coreVars, last, handles, nclone, nclose, sinkVars, chanVars, workerVars,
      sent, expect, joined, netVars, storeVars, hello, log_msg, net, filter, thread>>

GuardOp == nops < MaxGuardOps /\ nops' = nops + 1

InitGuard ==
    /\ InitQuiet
    /\ worker = "running"
    /\ hello = "none"
    /\ log_msg = "none"
    /\ net = "none"
    /\ filter = "none"
    /\ LOG_BUFFER_RC = 0
    /\ STDOUT_DISABLE_RC = 0
    /\ logger = [log_buffer |-> FALSE, stdout |-> TRUE]
    /\ guards = [t \in Threads |-> NoGuard]

\* LogBuffer::new: LOG_BUFFER_RC.fetch_add(1) and the test of its result
LogBuffer_new(t) ==
    /\ guards[t].pc = "idle"
    /\ GuardOp
    /\ LOG_BUFFER_RC' = LOG_BUFFER_RC + 1
    /\ guards' = [guards EXCEPT ![t] =
                    IF LOG_BUFFER_RC = 0
                    THEN [@ EXCEPT !.pc = "enable_log_buffer"]
                    ELSE [@ EXCEPT !.LogBuffer = @ + 1]]
    /\ UNCHANGED <<notGuard, STDOUT_DISABLE_RC, logger>>

\* LogBuffer::new: bp3d_logger::enable_log_buffer(), and the handle is returned
enable_log_buffer(t) ==
    /\ guards[t].pc = "enable_log_buffer"
    /\ logger' = [logger EXCEPT !.log_buffer = TRUE]
    /\ guards' = [guards EXCEPT ![t] = [@ EXCEPT !.pc = "idle", !.LogBuffer = @ + 1]]
    /\ UNCHANGED <<notGuard, nops, LOG_BUFFER_RC, STDOUT_DISABLE_RC>>

\* <LogBuffer as Drop>::drop: LOG_BUFFER_RC.fetch_sub(1) and the test
LogBuffer_drop(t) ==
    /\ guards[t].pc = "idle"
    /\ guards[t].LogBuffer > 0
    /\ GuardOp
    /\ LOG_BUFFER_RC' = LOG_BUFFER_RC - 1
    /\ guards' = [guards EXCEPT ![t] =
                    [@ EXCEPT !.LogBuffer = @ - 1,
                              !.pc = IF LOG_BUFFER_RC = 1
                                     THEN "disable_log_buffer" ELSE "idle"]]
    /\ UNCHANGED <<notGuard, STDOUT_DISABLE_RC, logger>>

\* <LogBuffer as Drop>::drop: bp3d_logger::disable_log_buffer()
disable_log_buffer(t) ==
    /\ guards[t].pc = "disable_log_buffer"
    /\ logger' = [logger EXCEPT !.log_buffer = FALSE]
    /\ guards' = [guards EXCEPT ![t] = [@ EXCEPT !.pc = "idle"]]
    /\ UNCHANGED <<notGuard, nops, LOG_BUFFER_RC, STDOUT_DISABLE_RC>>

\* DisableStdoutLogger::new: STDOUT_DISABLE_RC.fetch_add(1) and the test
DisableStdoutLogger_new(t) ==
    /\ guards[t].pc = "idle"
    /\ GuardOp
    /\ STDOUT_DISABLE_RC' = STDOUT_DISABLE_RC + 1
    /\ guards' = [guards EXCEPT ![t] =
                    IF STDOUT_DISABLE_RC = 0
                    THEN [@ EXCEPT !.pc = "disable_stdout"]
                    ELSE [@ EXCEPT !.DisableStdoutLogger = @ + 1]]
    /\ UNCHANGED <<notGuard, LOG_BUFFER_RC, logger>>

\* DisableStdoutLogger::new: bp3d_logger::flush() and disable_stdout()
disable_stdout(t) ==
    /\ guards[t].pc = "disable_stdout"
    /\ logger' = [logger EXCEPT !.stdout = FALSE]
    /\ guards' = [guards EXCEPT ![t] =
                    [@ EXCEPT !.pc = "idle", !.DisableStdoutLogger = @ + 1]]
    /\ UNCHANGED <<notGuard, nops, LOG_BUFFER_RC, STDOUT_DISABLE_RC>>

\* <DisableStdoutLogger as Drop>::drop: STDOUT_DISABLE_RC.fetch_sub(1)
DisableStdoutLogger_drop(t) ==
    /\ guards[t].pc = "idle"
    /\ guards[t].DisableStdoutLogger > 0
    /\ GuardOp
    /\ STDOUT_DISABLE_RC' = STDOUT_DISABLE_RC - 1
    /\ guards' = [guards EXCEPT ![t] =
                    [@ EXCEPT !.DisableStdoutLogger = @ - 1,
                              !.pc = IF STDOUT_DISABLE_RC = 1
                                     THEN "enable_stdout" ELSE "idle"]]
    /\ UNCHANGED <<notGuard, LOG_BUFFER_RC, logger>>

\* <DisableStdoutLogger as Drop>::drop: bp3d_logger::enable_stdout()
enable_stdout(t) ==
    /\ guards[t].pc = "enable_stdout"
    /\ logger' = [logger EXCEPT !.stdout = TRUE]
    /\ guards' = [guards EXCEPT ![t] = [@ EXCEPT !.pc = "idle"]]
    /\ UNCHANGED <<notGuard, nops, LOG_BUFFER_RC, STDOUT_DISABLE_RC>>

NextGuard ==
    \/ \E t \in Threads : LogBuffer_new(t)
    \/ \E t \in Threads : enable_log_buffer(t)
    \/ \E t \in Threads : LogBuffer_drop(t)
    \/ \E t \in Threads : disable_log_buffer(t)
    \/ \E t \in Threads : DisableStdoutLogger_new(t)
    \/ \E t \in Threads : disable_stdout(t)
    \/ \E t \in Threads : DisableStdoutLogger_drop(t)
    \/ \E t \in Threads : enable_stdout(t)

SpecGuard == InitGuard /\ [][NextGuard]_vars

\* ========================================================================
\* BaseTracer::enabled (src/core.rs) over the sinks.  tracing orders its
\* levels ERROR < WARN < INFO < DEBUG < TRACE.

Level == [ERROR |-> 1, WARN |-> 2, INFO |-> 3, DEBUG |-> 4, TRACE |-> 5]

Levels == {Level.ERROR, Level.WARN, Level.INFO, Level.DEBUG, Level.TRACE}

\* impl Tracer for Profiler: max_level_hint and enabled
Profiler_sink == [max_level_hint |-> None32, enabled |-> TRUE]

\* impl Tracer for Logger: max_level_hint and enabled
Logger_sink(level, disabled) ==
    [max_level_hint |-> Some32(level), enabled |-> ~disabled]

\* what an implementation of Tracer may answer
Tracers ==
    [max_level_hint : {None32} \cup {Some32(l) : l \in Levels},
     enabled : BOOLEAN]

\* enabled with the comparison the other way round
enabled_inverse(derived, level) ==
    IF derived.max_level_hint.some /\ derived.max_level_hint.v > level
    THEN FALSE
    ELSE derived.enabled

\* <BaseTracer<T> as Subscriber>::enabled, level being metadata.level()
enabled(derived, level) ==
    IF derived.max_level_hint.some /\ derived.max_level_hint.v < level
    THEN FALSE
    ELSE derived.enabled

notFilter ==
    <<coreVars, obsVars, sinkVars, chanVars, workerVars, sent, expect, joined,
      netVars, storeVars, hello, log_msg, net, guardVars, thread>>

InitFilter ==
    /\ InitQuiet
    /\ worker = "running"
    /\ hello = "none"
    /\ log_msg = "none"
    /\ net = "none"
    /\ \E derived \in Tracers \cup {Profiler_sink}
                        \cup {Logger_sink(l, d) : l \in Levels, d \in BOOLEAN},
          level \in Levels :
          filter = [derived |-> derived, level |-> level, called |-> FALSE,
                    result |-> FALSE]
    /\ LOG_BUFFER_RC = 0
    /\ STDOUT_DISABLE_RC = 0
    /\ logger = [log_buffer |-> FALSE, stdout |-> TRUE]
    /\ guards = [t \in Threads |-> "none"]

\* subscriber.enabled(metadata)
call_enabled ==
    /\ ~filter.called
    /\ filter' = [filter EXCEPT !.called = TRUE,
                                !.result = enabled(filter.derived, filter.level)]
    /\ UNCHANGED notFilter

NextFilter == call_enabled

SpecFilter == InitFilter /\ [][NextFilter]_vars

\* ========================================================================
\* The per-identity scratch of the profiler sink: Profiler.spans of
\* src/profiler/core.rs holding a SpanVisitor (src/profiler/visitor.rs)
\* whose SpanLog is written byte by byte.  A visitor carries the ghost field
\* `exits`: the span_exit calls since the last span_create or span_values.

MaxScratchOps == 3

\* SpanLog::new(id)
SpanLog_new_id(id) ==
    [f \in DOMAIN SpanLog_buffer \cup {"id"} |->
        IF f = "id" THEN id ELSE SpanLog_buffer[f]]

\* SpanLog::set_duration: as_secs() as u32 and subsec_nanos(); the seconds
\* tried are below 2^31, which the cast keeps
SpanLog_set_duration(msg, duration) ==
    [msg EXCEPT !.duration_secs = duration.secs,
                !.duration_nanos = duration.nanos]

\* SpanVisitor::new
SpanVisitor_new_id(id, parent) ==
    [msg |-> SpanLog_new_id(id), parent |-> parent, exits |-> 0]

\* SpanVisitor::reset: clears the log, then compares the parent
SpanVisitor_reset(visitor, parent) ==
    LET v == [visitor EXCEPT !.msg = clear(@), !.exits = 0] IN
    IF v.parent # parent
    THEN [visitor |-> [v EXCEPT !.parent = parent], changed |-> TRUE]
    ELSE [visitor |-> v, changed |-> FALSE]

\* attrs.record(&mut visitor) / values.record(&mut visitor): one record_*
\* call, that is one Field::write_into, per field
RECURSIVE record_fields(_, _)
record_fields(l, fields) ==
    IF fields = <<>> THEN l
    ELSE record_fields(Field_write_into(l, Head(fields).name, Head(fields).value),
                       Tail(fields))

\* the identities, parents, fields and durations the callbacks are tried with
ScratchIds == {SpanId_from(n, 0) : n \in CallSites}

ScratchFields ==
    {<<>>,
     <<[name |-> <<110>>, value |-> [ty |-> "str", v |-> <<115>>]],
       [name |-> <<109>>, value |-> [ty |-> "bool", v |-> <<0>>]]>>}

ScratchDurations == {[secs |-> 0, nanos |-> 5], [secs |-> 1, nanos |-> 0]}

ScratchOp == nops < MaxScratchOps /\ nops' = nops + 1

notScratch ==
    <<coreVars, handles, nclone, nclose, mutex, pc, pend, exited, ch_event,
      ch_control, workerVars, sent, expect, joined, netVars, storeVars,
      unitVars>>

InitScratch ==
    /\ InitQuiet
    /\ InitUnits
    /\ worker = "running"

\* Profiler::span_create
scratch_span_create(id, new, parent, attrs) ==
    LET par == map_get_id(parent)
        seen == id \in DOMAIN spans
        r == IF seen THEN SpanVisitor_reset(spans[id], par)
             ELSE [visitor |-> SpanVisitor_new_id(get_id(id), par),
                   changed |-> TRUE]
        data == [r.visitor EXCEPT !.msg = record_fields(@, attrs)]
        c1 == IF new THEN blocking_send(ch_span_control, Alloc(id, get_id(id)))
              ELSE ch_span_control
        c2 == IF r.changed THEN blocking_send(c1, UpdateParent(id, par)) ELSE c1
    IN  /\ ScratchOp
        /\ Len(c2) <= MaxQueue
        /\ spans' = [i \in DOMAIN spans \cup {id} |->
                        IF i = id THEN data ELSE spans[i]]
        /\ ch_span_control' = c2
        /\ last' = [op |-> "span_create", id |-> id, msg |-> data.msg,
                    exits |-> 0]
        /\ UNCHANGED <<ch_span, notScratch>>

\* Profiler::span_values
scratch_span_values(id, values) ==
    /\ ScratchOp
    /\ id \in DOMAIN spans
    /\ spans' = [spans EXCEPT ![id].msg = record_fields(@, values),
                              ![id].exits = 0]
    /\ last' = [op |-> "span_values", id |-> id,
                msg |-> record_fields(spans[id].msg, values), exits |-> 0]
    /\ UNCHANGED <<ch_span_control, ch_span, notScratch>>

\* Profiler::span_exit: set_duration on the scratch, then the clone is sent
scratch_span_exit(id, duration) ==
    /\ ScratchOp
    /\ id \in DOMAIN spans
    /\ can_send(ch_span)
    /\ LET msg == SpanLog_set_duration(spans[id].msg, duration) IN
          /\ spans' = [spans EXCEPT ![id].msg = msg, ![id].exits = @ + 1]
          /\ ch_span' = blocking_send(ch_span, msg)
          /\ last' = [op |-> "span_exit", id |-> id, msg |-> msg,
                      exits |-> spans[id].exits]
    /\ UNCHANGED <<ch_span_control, notScratch>>

NextScratch ==
    \/ \E id \in ScratchIds, new \in BOOLEAN,
          parent \in {NoSpan, SpanId_from(1, 0)},
          attrs \in ScratchFields : scratch_span_create(id, new, parent, attrs)
    \/ \E id \in ScratchIds, values \in ScratchFields :
          scratch_span_values(id, values)
    \/ \E id \in ScratchIds, duration \in ScratchDurations :
          scratch_span_exit(id, duration)

SpecScratch == InitScratch /\ [][NextScratch]_vars

\* ========================================================================
\* SpanStore::record over long waits: the store of src/profiler/thread/
\* store.rs with the clock, in whole milliseconds, moving past 2^16.

MaxElapsed == 65538
MaxElapsedOps == 3

\* the waits between two calls
Waits == {1, 2, 65534, 65535, 65536}

ElapsedOp == nops < MaxElapsedOps /\ nops' = nops + 1

\* a node is registered before its first log
elapsed_alloc(n) ==
    /\ nops < MaxElapsedOps
    /\ store_alloc(n)

\* time passes between two calls
store_wait(ms) ==
    /\ now + ms <= MaxElapsed
    /\ ElapsedOp
    /\ now' = now + ms
    /\ UNCHANGED <<notStore, wire, storeVars>>

\* the worker passes a SpanLog to the store and writes the SpanUpdate, if any
elapsed_record(n, duration, gap) ==
    LET r == record(n, duration, gap) IN
    /\ ElapsedOp
    /\ now + gap <= MaxElapsed
    /\ now' = now + gap
    /\ store' = r.store
    /\ wire' = IF r.some THEN Append(wire, r.update) ELSE wire
    /\ window' = IF n \in DOMAIN window
                 THEN [window EXCEPT
                        ![n].logs = IF store.enable_recording THEN @ + 1 ELSE @,
                        ![n].last_update = IF r.some THEN now + gap ELSE @]
                 ELSE window
    /\ UNCHANGED notStore

NextElapsed ==
    \/ \E n \in StoreNodes : elapsed_alloc(n)
    \/ \E ms \in Waits : store_wait(ms)
    \/ \E n \in StoreNodes, duration \in 0..MaxDuration, gap \in 0..1 :
            elapsed_record(n, duration, gap)

SpecElapsed == InitStore /\ [][NextElapsed]_vars

\* ========================================================================
\* A run of Field::write_into calls on one log, closed by write_finish
\* (src/profiler/network_types/log.rs and src/profiler/log_msg.rs).

MaxFieldOps == 3
LongName == 300

\* the names and values the fields of a run are made of
SeqNames == {Fill(110, 1), Fill(110, LongName)}

SeqValues ==
    {[ty |-> "bool", v |-> <<1>>], [ty |-> "str", v |-> <<115>>],
     [ty |-> "u64", v |-> Int64(8, 1, 0, 1, 0)]}

FieldOp == nops < MaxFieldOps /\ nops' = nops + 1

\* Field::new(name, value).write_into(&mut log)
seq_write_into(name, value) ==
    /\ FieldOp
    /\ ~log_msg.finished
    /\ log_msg' = Field_write_into(log_msg, name, value)
    /\ last' = [op |-> "write_into", name |-> name, value |-> value,
                pre_len |-> log_msg.msg_len]
    /\ UNCHANGED notLog

\* SpanLog::write_finish / EventLog::write_finish
seq_write_finish ==
    /\ FieldOp
    /\ ~log_msg.finished
    /\ log_msg' = write_finish(log_msg)
    /\ last' = [op |-> "write_finish", name |-> <<>>, value |-> <<>>,
                pre_len |-> log_msg.msg_len]
    /\ UNCHANGED notLog

NextFieldSeq ==
    \/ \E name \in SeqNames, value \in SeqValues : seq_write_into(name, value)
    \/ seq_write_finish

SpecFieldSeq == InitField /\ [][NextFieldSeq]_vars

\* ========================================================================
\* The subscriber's mutex (BaseTracer.inner of src/core.rs) and the sink
\* calls, one step per lock section and per sink call.  `last` tells for the
\* sink call just made which callback it was, whether the caller held the
\* mutex and whether another thread held it.

MaxLockOps == 4

LockOp == nops < MaxLockOps /\ nops' = nops + 1

\* a subscriber call and the sink call it made, "none" if it made none
SinkCall(op, t, cb) ==
    [op |-> op, t |-> t, cb |-> cb, locked |-> mutex = t,
     other |-> mutex \notin {0, t}]

notLock ==
    <<now, handles, nclone, nclose, spans, exited, chanVars, workerVars, sent,
      expect, joined, netVars, storeVars, unitVars>>

\* BaseTracer::new_span up to the call of span_create: takes the lock
lk_new_span(t, meta, is_root, parent) ==
    LET a == alloc_span(meta) IN
    /\ pc[t] = "idle" /\ mutex = 0
    /\ Cardinality(DOMAIN spans_by_id) < MaxSpans
    /\ LockOp
    /\ mutex' = t
    /\ counter' = a.counter
    /\ spans_by_meta' = a.spans_by_meta
    /\ spans_by_id' = a.spans_by_id
    /\ pend' = [pend EXCEPT ![t] =
                  [NoPend EXCEPT !.id = a.span_id, !.meta = meta, !.new = a.new,
                     !.parent = resolve_parent(SPAN_STACK[t], is_root, parent)]]
    /\ pc' = [pc EXCEPT ![t] = "create"]
    /\ UNCHANGED <<SPAN_STACK, last, notLock>>

\* new_span's self.derived.span_create(..); the guard drops at the return
lk_span_create(t) ==
    /\ pc[t] = "create"
    /\ last' = SinkCall("new_span", t, "span_create")
    /\ mutex' = 0
    /\ pc' = [pc EXCEPT ![t] = "idle"]
    /\ pend' = [pend EXCEPT ![t] = NoPend]
    /\ UNCHANGED <<spans_by_meta, spans_by_id, counter, SPAN_STACK, nops,
                   notLock>>

\* BaseTracer::record
lk_record(t, id) ==
    /\ pc[t] = "idle"
    /\ LockOp
    /\ last' = SinkCall("record", t, "span_values")
    /\ UNCHANGED <<spans_by_meta, spans_by_id, counter, SPAN_STACK, mutex, pc,
                   pend, notLock>>

\* BaseTracer::record_follows_from
lk_record_follows_from(t, id, follows) ==
    /\ pc[t] = "idle"
    /\ LockOp
    /\ last' = SinkCall("record_follows_from", t, "span_follows_from")
    /\ UNCHANGED <<spans_by_meta, spans_by_id, counter, SPAN_STACK, mutex, pc,
                   pend, notLock>>

\* BaseTracer::event
lk_event(t) ==
    /\ pc[t] = "idle"
    /\ LockOp
    /\ last' = SinkCall("event", t, "event")
    /\ UNCHANGED <<spans_by_meta, spans_by_id, counter, SPAN_STACK, mutex, pc,
                   pend, notLock>>

\* BaseTracer::enter
lk_enter(t, id) ==
    /\ pc[t] = "idle"
    /\ LockOp
    /\ TotalFrames < MaxFrames
    /\ SPAN_STACK' = [SPAN_STACK EXCEPT ![t] = push_span(@, id)]
    /\ last' = SinkCall("enter", t, "span_enter")
    /\ UNCHANGED <<spans_by_meta, spans_by_id, counter, mutex, pc, pend,
                   notLock>>

\* an exit that takes the lock around pop_span and span_exit
lk_exit_locking(t, id) ==
    LET r == pop_span(SPAN_STACK[t], id) IN
    /\ pc[t] = "idle" /\ mutex = 0
    /\ LockOp
    /\ SPAN_STACK' = [SPAN_STACK EXCEPT ![t] = r.stack]
    /\ last' = [SinkCall("exit", t, IF r.found THEN "span_exit" ELSE "none")
                  EXCEPT !.locked = TRUE]
    /\ UNCHANGED <<spans_by_meta, spans_by_id, counter, mutex, pc, pend,
                   notLock>>

\* BaseTracer::exit
lk_exit(t, id) ==
    LET r == pop_span(SPAN_STACK[t], id) IN
    /\ pc[t] = "idle"
    /\ LockOp
    /\ SPAN_STACK' = [SPAN_STACK EXCEPT ![t] = r.stack]
    /\ last' = SinkCall("exit", t, IF r.found THEN "span_exit" ELSE "none")
    /\ UNCHANGED <<spans_by_meta, spans_by_id, counter, mutex, pc, pend,
                   notLock>>

\* BaseTracer::clone_span: the lock is taken and dropped, no sink is called
lk_clone_span(t, id) ==
    /\ pc[t] = "idle" /\ mutex = 0
    /\ LockOp
    /\ spans_by_id' = IF id \in DOMAIN spans_by_id
                      THEN [spans_by_id EXCEPT ![id].ref_count = @ + 1]
                      ELSE spans_by_id
    /\ last' = SinkCall("clone_span", t, "none")
    /\ UNCHANGED <<spans_by_meta, counter, SPAN_STACK, mutex, pc, pend,
                   notLock>>

\* BaseTracer::try_close up to the call of span_destroy, or to its return
\* when the span stays
lk_try_close(t, id) ==
    LET c == close_span(id) IN
    /\ pc[t] = "idle" /\ mutex = 0
    /\ LockOp
    /\ spans_by_meta' = c.spans_by_meta
    /\ spans_by_id' = c.spans_by_id
    /\ IF c.destroy
       THEN /\ mutex' = t
            /\ pc' = [pc EXCEPT ![t] = "destroy"]
            /\ pend' = [pend EXCEPT ![t] = [NoPend EXCEPT !.id = id]]
            /\ UNCHANGED last
       ELSE /\ last' = SinkCall("try_close", t, "none")
            /\ UNCHANGED <<mutex, pc, pend>>
    /\ UNCHANGED <<counter, SPAN_STACK, notLock>>

\* try_close's self.derived.span_destroy(&span); the guard drops at the return
lk_span_destroy(t) ==
    /\ pc[t] = "destroy"
    /\ last' = SinkCall("try_close", t, "span_destroy")
    /\ mutex' = 0
    /\ pc' = [pc EXCEPT ![t] = "idle"]
    /\ pend' = [pend EXCEPT ![t] = NoPend]
    /\ UNCHANGED <<spans_by_meta, spans_by_id, counter, SPAN_STACK, nops,
                   notLock>>

NextLock ==
    \/ \E t \in Threads, meta \in CallSites, is_root \in BOOLEAN,
          parent \in {NoSpan} \cup DOMAIN spans_by_id :
            lk_new_span(t, meta, is_root, parent)
    \/ \E t \in Threads : lk_span_create(t)
    \/ \E t \in Threads, id \in DOMAIN spans_by_id : lk_record(t, id)
    \/ \E t \in Threads, id \in DOMAIN spans_by_id, follows \in DOMAIN spans_by_id :
            lk_record_follows_from(t, id, follows)
    \/ \E t \in Threads : lk_event(t)
    \/ \E t \in Threads, id \in DOMAIN spans_by_id : lk_enter(t, id)
    \/ \E t \in Threads, id \in AllIds : lk_exit(t, id)
    \/ \E t \in Threads, id \in AllIds : lk_clone_span(t, id)
    \/ \E t \in Threads, id \in AllIds : lk_try_close(t, id)
    \/ \E t \in Threads : lk_span_destroy(t)

InitLock ==
    /\ InitQuiet
    /\ InitUnits
    /\ worker = "running"

SpecLock == InitLock /\ [][NextLock]_vars

\* ========================================================================
\* The log pump of src/profiler/logpump.rs: records of the log crate handed
\* to send_message of src/profiler/state.rs.  The profiler is initialised:
\* LOG_CHANNEL holds a clone of the event channel's sender.

\* the records of the log crate: a level and whether module_path has a "::"
PumpRecords == [level : Levels, module : BOOLEAN]

\* tokio's mpsc::Sender::send is an async fn: the call only builds the
\* future, which queues the value when it is polled
Sender_send(ch, m) == [channel |-> ch, value |-> m, polled |-> FALSE]

\* `let _ = val.send(..)`: the future is dropped; the channel is what the
\* polls made so far have left
let_drop(future) ==
    IF future.polled THEN Append(future.channel, future.value)
    ELSE future.channel

\* send_message with LOG_CHANNEL set
send_message(message) == let_drop(Sender_send(ch_event, message))

\* <LogPump as Log>::log
pump_log(rec) ==
    /\ ProfOp
    /\ ch_event' = send_message(EventLog_new(None32))
    /\ last' = [op |-> "log", record |-> rec]
    /\ UNCHANGED <<coreVars, ghostCounters, sinkVars, ch_span_control, ch_span,
                   ch_control, workerVars, sent, expect, joined, netVars,
                   storeVars, unitVars>>

NextPump ==
    \/ \E rec \in PumpRecords : pump_log(rec)
    \/ \E t \in Threads : p_event(t)
    \/ run_event
    \/ run_control

SpecPump == InitProf /\ [][NextPump]_vars

\* ========================================================================
\* Producers blocked on a full channel.  The calls of SpecLive, MaxFairOps
\* of them, every span made with its parent left to the thread's stack and
\* the peer staying, with the worker's select! taking every branch that
\* stays ready
\* and a blocked producer resuming once its send can go through: tokio's
\* channel wakes the senders waiting for a slot in the order they came.

MaxFairOps == 3

NextFair ==
    \/ \E t \in Threads, meta \in CallSites :
            nops < MaxFairOps /\ p_new_span(t, meta, FALSE, NoSpan)
    \/ \E t \in Threads : span_create_alloc(t)
    \/ \E t \in Threads : span_create_visit(t)
    \/ \E t \in Threads, id \in Returned, follows \in Returned :
            nops < MaxFairOps /\ p_record_follows_from(t, id, follows)
    \/ \E t \in Threads : nops < MaxFairOps /\ p_event(t)
    \/ \E t \in Threads, id \in Returned : nops < MaxFairOps /\ p_enter(t, id)
    \/ \E t \in Threads, id \in DOMAIN spans : nops < MaxFairOps /\ p_exit(t, id)
    \/ \E t \in Threads, id \in Returned : nops < MaxFairOps /\ p_try_close(t, id)
    \/ terminate
    \/ join
    \/ run_span
    \/ run_span_control
    \/ run_event
    \/ run_control

SpecFair ==
    /\ InitProf
    /\ [][NextFair]_vars
    /\ WF_vars(run_span) /\ WF_vars(run_span_control)
    /\ WF_vars(run_event) /\ WF_vars(run_control)
    /\ WF_vars(join)
    /\ \A t \in Threads :
          WF_vars(span_create_alloc(t)) /\ WF_vars(span_create_visit(t))

\* ========================================================================
\* Frames left on a stack.  The subscriber core of src/core.rs driven by
\* callers that only name spans they hold (ids with a SpanRecord); `expect`
\* keeps, for every id new_span has issued, the time of the last new_span
\* that issued it.

MaxStaleOps == 5

StaleOp ==
    /\ nops < MaxStaleOps
    /\ nops' = nops + 1
    /\ UNCHANGED <<sinkVars, chanVars, workerVars, sent, joined, netVars,
                   storeVars, unitVars>>

InitStale ==
    /\ InitCore
    /\ expect = <<>>

\* the clock read by Instant::now advances
stale_tick ==
    /\ Tick
    /\ UNCHANGED <<nops, profVars>>

stale_new_span(t, meta) ==
    LET id == alloc_span(meta).span_id IN
    /\ StaleOp
    /\ new_span(t, meta, FALSE, NoSpan)
    /\ expect' = [i \in DOMAIN expect \cup {id} |->
                    IF i = id THEN now ELSE expect[i]]

stale_try_close(id) == StaleOp /\ try_close(id) /\ UNCHANGED expect

stale_enter(t, id) == StaleOp /\ enter(t, id) /\ UNCHANGED expect

stale_exit(t, id) == StaleOp /\ exit(t, id) /\ UNCHANGED expect

NextStale ==
    \/ stale_tick
    \/ \E t \in Threads, meta \in CallSites : stale_new_span(t, meta)
    \/ \E id \in DOMAIN spans_by_id : stale_try_close(id)
    \/ \E t \in Threads, id \in DOMAIN spans_by_id : stale_enter(t, id)
    \/ \E t \in Threads, id \in DOMAIN spans_by_id : stale_exit(t, id)

SpecStale == InitStale /\ [][NextStale]_vars

\* ------------------------------------------- src/profiler/state.rs, terminate
\* ProfilerState::terminate statement by statement, called from any thread:
\* the load of `exited`, the store, the send, the take of the JoinHandle and
\* the join are separate steps of the calling thread.  pc[t] is the statement
\* the thread is about to run; a thread whose unwrap failed stays "panicked".
\* `last` counts the Terminate commands sent and the joins that returned.
MaxTermOps == 3

TermLast(n_sent, n_joins) == [op |-> "terminate", sent |-> n_sent, joins |-> n_joins]

TermSent == IF last.op = "terminate" THEN last.sent ELSE 0

TermJoins == IF last.op = "terminate" THEN last.joins ELSE 0

notTerm ==
    <<coreVars, handles, nclone, nclose, spans, mutex, pend, ch_span_control,
      ch_span, ch_event, span_data, wire, sent, expect, netVars, storeVars,
      hello, log_msg, net, filter, guardVars>>

\* if self.is_exited() { return; }
term_is_exited(t) ==
    /\ pc[t] = "idle"
    /\ nops < MaxTermOps
    /\ nops' = nops + 1
    /\ pc' = [pc EXCEPT ![t] = IF exited THEN "idle" ELSE "store"]
    /\ last' = TermLast(TermSent, TermJoins)
    /\ UNCHANGED <<notTerm, exited, ch_control, worker, thread, joined>>

\* self.exited.store(true, Ordering::Relaxed)
term_store(t) ==
    /\ pc[t] = "store"
    /\ exited' = TRUE
    /\ pc' = [pc EXCEPT ![t] = "send"]
    /\ UNCHANGED <<notTerm, last, nops, ch_control, worker, thread, joined>>

\* self.send_ch.blocking_send(Control::Terminate).unwrap(): the send waits for
\* room, and is an Err, on which unwrap panics, once the worker has dropped
\* the receiver
term_send(t) ==
    /\ pc[t] = "send"
    /\ can_send(ch_control)
    /\ IF worker = "exited"
       THEN /\ pc' = [pc EXCEPT ![t] = "panicked"]
            /\ UNCHANGED <<ch_control, last>>
       ELSE /\ ch_control' = Append(ch_control, [ty |-> "Terminate"])
            /\ last' = TermLast(TermSent + 1, TermJoins)
            /\ pc' = [pc EXCEPT ![t] = "take"]
    /\ UNCHANGED <<notTerm, nops, exited, worker, thread, joined>>

\* let thread = { let mut lock = self.thread.lock().unwrap(); lock.take() };
\* with None the call returns
term_take(t) ==
    /\ pc[t] = "take"
    /\ thread' = "None"
    /\ pc' = [pc EXCEPT ![t] = IF thread = "Some" THEN "join" ELSE "idle"]
    /\ UNCHANGED <<notTerm, last, nops, exited, ch_control, worker, joined>>

\* thread.join().unwrap(): returns once the worker thread has ended
term_join(t) ==
    /\ pc[t] = "join"
    /\ worker = "exited"
    /\ joined' = TRUE
    /\ last' = TermLast(TermSent, TermJoins + 1)
    /\ pc' = [pc EXCEPT ![t] = "idle"]
    /\ UNCHANGED <<notTerm, nops, exited, ch_control, worker, thread>>

NextTerm ==
    \/ \E t \in Threads : term_is_exited(t)
    \/ \E t \in Threads : term_store(t)
    \/ \E t \in Threads : term_send(t)
    \/ \E t \in Threads : term_take(t)
    \/ \E t \in Threads : term_join(t)
    \/ run_control

SpecTerm == InitProf /\ [][NextTerm]_vars

\* ------------------------------------------------------------------------
\* Claims about the subscriber core (checked under SpecCore)

\* the spans of node n that have a SpanRecord
LiveOf(n) == {i \in DOMAIN spans_by_id : get_id(i) = n}

HasFrame(t, id) == \E k \in 1..Len(SPAN_STACK[t]) : SPAN_STACK[t][k].id = id

\* C1: no two live spans of one call-site hold the same instance id: new_span
\* never returns an id that a live span already holds, and every call-site
\* counts as many live instances as there are distinct live ids of its node.
C1_UniqueLiveInstances ==
    /\ \A i \in AllIds : handles[i] <= 1
    /\ \A k \in DOMAIN spans_by_meta :
          spans_by_meta[k].instance_count = Cardinality(LiveOf(spans_by_meta[k].span_id))

\* two spans of the same call-site are live at once
C1_Witness ==
    \E k \in DOMAIN spans_by_meta :
        /\ spans_by_meta[k].instance_count = 2
        /\ last.op = "new_span"
        /\ last.pre_count = 1

\* C2: once the live count of a call-site is back to zero its freed pool is
\* empty and next_instance_id is 0, and the next new_span on it gets instance 0.
C2_RestartAtZero ==
    /\ \A k \in DOMAIN spans_by_meta :
          spans_by_meta[k].instance_count = 0 =>
              /\ spans_by_meta[k].freed_instances = <<>>
              /\ spans_by_meta[k].next_instance_id = 0
    /\ (last.op = "new_span" /\ last.pre_count = 0) => get_instance(last.id) = 0

\* a new_span on a call-site whose spans were all closed
C2_Witness == last.op = "new_span" /\ last.pre_count = 0

\* C3: ref_count of a live span is 1 + clone_span calls - try_close calls on
\* its id since new_span allocated it.
C3_RefCount ==
    \A i \in DOMAIN spans_by_id :
        spans_by_id[i].ref_count = 1 + nclone[i] - nclose[i]

\* a live span that was cloned and closed once
C3_Witness ==
    \E i \in DOMAIN spans_by_id : nclone[i] >= 1 /\ nclose[i] >= 1

\* the instance is free for the call-site of node n to hand out again
GivenBack(n, instance) ==
    \E k \in DOMAIN spans_by_meta :
        /\ spans_by_meta[k].span_id = n
        /\ \/ instance >= spans_by_meta[k].next_instance_id
           \/ \E j \in 1..Len(spans_by_meta[k].freed_instances) :
                 spans_by_meta[k].freed_instances[j] = instance

\* C4: try_close returns true exactly when it takes ref_count to zero; then the
\* record is gone, the instance is given back and span_destroy was called once;
\* otherwise it returns false and calls nothing; no record has ref_count 0.
C4_TryClose ==
    /\ \A i \in DOMAIN spans_by_id : spans_by_id[i].ref_count > 0
    /\ last.op = "try_close" =>
          /\ last.ret <=> (last.pre_ref = 1)
          /\ last.ret =>
                /\ last.id \notin DOMAIN spans_by_id
                /\ GivenBack(get_id(last.id), get_instance(last.id))
                /\ last.calls = <<Call("span_destroy", last.id, FALSE, NoSpan, 0)>>
          /\ ~last.ret => last.calls = <<>>

\* a try_close that destroyed its span
C4_Witness == last.op = "try_close" /\ last.ret

\* C8 (as claimed): an exit on thread b of a live span whose only frames are on other
\* threads finds the frame, forwards span_exit and leaves no frame of the span.
C8_CrossThreadExit ==
    [][\A b \in Threads, id \in AllIds :
          (/\ exit(b, id)
           /\ id \in DOMAIN spans_by_id
           /\ ~HasFrame(b, id)
           /\ \E a \in Threads \ {b} : HasFrame(a, id))
          => /\ last'.found
             /\ Len(last'.calls) = 1
             /\ \A t \in Threads :
                   \A k \in 1..Len(SPAN_STACK'[t]) : SPAN_STACK'[t][k].id # id]_vars

\* index of the occurrence of span nearest the top of the stack, 0 for none
rposition(stack, span) ==
    IF \E i \in 1..Len(stack) : stack[i].id = span
    THEN CHOOSE i \in 1..Len(stack) :
            /\ stack[i].id = span
            /\ \A j \in (i + 1)..Len(stack) : stack[j].id # span
    ELSE 0

\* C9 (as claimed): when the id is on the stack several times, exit removes the
\* occurrence nearest the top and reports the time since that occurrence's entry.
C9_PopTopmost ==
    [][\A t \in Threads, id \in AllIds :
          (/\ exit(t, id)
           /\ Cardinality({k \in 1..Len(SPAN_STACK[t]) : SPAN_STACK[t][k].id = id}) >= 2)
          => LET top == rposition(SPAN_STACK[t], id) IN
             /\ SPAN_STACK'[t] = remove(SPAN_STACK[t], top)
             /\ last'.calls = <<Call("span_exit", id, FALSE, NoSpan,
                                     now - SPAN_STACK[t][top].last_time)>>]_vars

\* C10 (as claimed): enter and exit of an id that has no SpanRecord change no
\* stack and call no sink callback.
C10_UnknownIdNoOp ==
    [][\A t \in Threads, id \in AllIds :
          (/\ enter(t, id) \/ exit(t, id)
           /\ id \notin DOMAIN spans_by_id)
          => /\ SPAN_STACK' = SPAN_STACK
             /\ last'.calls = <<>>]_vars

\* C11 (as claimed): current_span never panics; it returns the top frame of
\* the calling thread, and none when the stack is empty or when the span of
\* the top frame has been destroyed.
C11_CurrentSpanNoPanic ==
    last.op = "current_span" => ~last.panics

\* C12: an exit on a thread that holds no frame for the id leaves the stack
\* unchanged and calls no sink callback; an exit that finds a frame forwards
\* span_exit for the id exactly once.
C12_ExitForwarding ==
    [][(last'.op = "exit" /\ nops' = nops + 1) =>
          IF HasFrame(last'.t, last'.id)
          THEN /\ Len(last'.calls) = 1
               /\ last'.calls[1].cb = "span_exit"
               /\ last'.calls[1].id = last'.id
          ELSE /\ SPAN_STACK' = SPAN_STACK
               /\ last'.calls = <<>>]_vars

\* an exit found no frame on its thread while frames were held
C12_Witness == last.op = "exit" /\ ~last.found /\ TotalFrames > 0

\* ------------------------------------------------------------------------
\* Claims about the profiler sink and its worker

\* the messages of the wire that carry a span's own node id
MentionsNode(m, n) ==
    m.ty \in {"SpanParent", "SpanFollows", "SpanEvent"} /\ m.id = n

\* C5: for every node id, the SpanAlloc of the node is on the wire before any
\* SpanParent, SpanFollows or SpanEvent that carries that node id, whatever the
\* interleaving of the producers and the order in which select serves the
\* channels.
C5_AllocFirst ==
    \A i \in 1..Len(wire) : \A n \in 1..NumCallSites :
        MentionsNode(wire[i], n) =>
            \E j \in 1..(i - 1) : wire[j].ty = "SpanAlloc" /\ wire[j].id = n

\* the logs of node n the worker has applied to the node's aggregates
Applied(n) == IF n \in DOMAIN span_data THEN span_data[n].run_count ELSE 0

\* the logs of node n still in the span channel
Queued(n) == Len(SelectSeq(ch_span, LAMBDA m : m.id = n))

\* C6: no span exit is lost: as long as the guard is not terminated, every
\* SpanLog sent by span_exit is either still in the span channel or has been
\* applied to the aggregates of its node.
C6_NoExitLost ==
    ~exited => \A n \in 1..NumCallSites : sent[n] = Applied(n) + Queued(n)

\* the SpanParent messages of the wire, in order
WireParents == SelectSeq(wire, LAMBDA m : m.ty = "SpanParent")

\* the parent the rule of new_span gives a call
RuleParent(is_root, explicit, top) ==
    IF is_root THEN NoSpan
    ELSE IF explicit # NoSpan THEN explicit
    ELSE top

\* C7: the parent new_span passes to span_create is none for root attributes
\* (parent_node 0 on the wire, whatever the thread's current span), otherwise
\* the explicit parent when given, otherwise the top of the calling thread's
\* span stack, or none when the stack is empty.
C7_ParentResolution ==
    /\ last.op = "new_span" =>
          last.calls[1].parent =
              RuleParent(last.is_root, last.explicit,
                         IF Len(SPAN_STACK[last.t]) = 0 THEN NoSpan
                         ELSE SPAN_STACK[last.t][Len(SPAN_STACK[last.t])].id)
    /\ Len(WireParents) <= Len(expect)
    /\ \A k \in 1..Len(WireParents) :
          /\ WireParents[k].id = get_id(expect[k].id)
          /\ WireParents[k].arg =
                LET p == RuleParent(expect[k].is_root, expect[k].explicit,
                                    expect[k].top)
                IN  IF p = NoSpan THEN 0 ELSE get_id(p)

\* a root span created under a current span is on the wire with parent_node 0
C7_Witness ==
    \E k \in 1..Len(WireParents) :
        /\ k <= Len(expect)
        /\ expect[k].is_root
        /\ expect[k].top # NoSpan
        /\ WireParents[k].arg = 0

C14_ClosedChannels ==
    worker = "exited" =>
        /\ ch_span_control = <<>> /\ ch_span = <<>>
        /\ ch_event = <<>> /\ ch_control = <<>>
        /\ \A t \in Threads :
              /\ pc[t] = "alloc" => ENABLED span_create_alloc(t)
              /\ pc[t] = "visit" => ENABLED span_create_visit(t)
        /\ Returned \subseteq DOMAIN spans

\* a span was created after the worker ended: its UpdateParent was discarded
C14_Witness ==
    /\ worker = "exited"
    /\ \E id \in DOMAIN spans \cap Returned :
          \A k \in 1..Len(expect) : expect[k].id # id

\* C15 (as claimed): after a write to the socket has failed the worker goes
\* on serving its channels but calls no further write: at most one write_all
\* ever returns Err.
C15_NoWriteAfterFailure == net_errors <= 1

\* ------------------------------------------------------------------------
\* Claims about the span store

\* C16 (as claimed): in every reachable state of the store, every node's
\* row_count is at most the store's current max_rows.
C16_RowCountBounded ==
    \A n \in DOMAIN store.span_data :
        store.span_data[n].row_count <= store.max_rows

\* the SpanDatasets of node n among the messages a step has written
NewDatasets(n) ==
    {i \in (Len(wire) + 1)..Len(wire') :
        wire'[i].ty = "SpanDataset" /\ wire'[i].id = n}

\* C17 (as claimed): when recording is stopped after N logs of a registered
\* node were processed in the window, one SpanDataset is written for the
\* node, with run_count = min(N, max_rows) and that many bodies, and the
\* node's buffer and row_count are empty afterwards.
C17_StopRecording ==
    [][stop_recording =>
          \A n \in DOMAIN store.span_data :
              /\ Cardinality(NewDatasets(n)) = 1
              /\ \A i \in NewDatasets(n) :
                    /\ wire'[i].run_count = Min(window[n].logs, store.max_rows)
                    /\ Len(wire'[i].payload) = wire'[i].run_count
              /\ store'.span_data[n].row_count = 0
              /\ store'.span_data[n].runs_file = <<>>]_vars

\* C18 (as claimed): two successive SpanUpdates of a node are at least the
\* store's period (the configured one, raised to min_period) apart.
C18_UpdatePeriod ==
    [][\A n \in DOMAIN window :
          (/\ window[n].last_update >= 0
           /\ Len(wire') = Len(wire) + 1
           /\ wire'[Len(wire')].ty = "SpanUpdate"
           /\ wire'[Len(wire')].id = n)
          => now' - window[n].last_update >= store.period]_vars

\* ------------------------------------------------------------------------
\* Claims about the worker's aggregates

\* C19: for every node with at least one run counted, min_time <= average
\* <= max_time after every processed SpanLog, the average being total_time
\* over the run count; also after the count and total_time were reset at
\* OVERFLOW_LIMIT.
C19_AverageBetweenMinMax ==
    \A n \in DOMAIN span_data :
        span_data[n].run_count > 0 =>
            /\ span_data[n].min_time <= get_average(span_data[n])
            /\ get_average(span_data[n]) <= span_data[n].max_time

\* a log was counted after the reset at OVERFLOW_LIMIT
C19_Witness ==
    \E n \in DOMAIN span_data :
        /\ span_data[n].has_overflowed
        /\ span_data[n].run_count > 0
        /\ span_data[n].total_time > 0

\* C20: after a SpanLog of duration d of a registered node was processed,
\* the node has min_time <= d <= max_time, min_time and max_time being the
\* minimum and the maximum of their old value and d.
C20_MinMaxUpdate ==
    [][(last'.op = "span_log" /\ nops' = nops + 1
            /\ last'.id \in DOMAIN span_data) =>
          LET old == span_data[last'.id]
              new == span_data'[last'.id]
              d == last'.duration
          IN  /\ new.min_time <= d /\ d <= new.max_time
              /\ new.min_time = Min(old.min_time, d)
              /\ new.max_time = Max(old.max_time, d)]_vars

\* a log of a positive duration was applied to a registered node
C20_Witness ==
    /\ last.op = "span_log" /\ last.registered /\ last.duration > 0
    /\ span_data[last.id].run_count > 0

\* C21 (as claimed): after exactly one SpanLog of duration d was processed
\* for a freshly allocated node, the node's min_time, max_time and average
\* all equal d.
C21_FirstLog ==
    (/\ last.op = "span_log" /\ last.registered
     /\ span_data[last.id].run_count = 1
     /\ ~span_data[last.id].has_overflowed)
    => /\ span_data[last.id].min_time = last.duration
       /\ span_data[last.id].max_time = last.duration
       /\ get_average(span_data[last.id]) = last.duration

\* C22 (as claimed): Hello::matches returns Ok if and only if the signatures,
\* the major versions and the pre-release tags are equal; SignatureMismatch
\* when the signatures differ, VersionMismatch for any difference in major
\* version or pre-release tag.
C22_Matches ==
    hello.result # "none" =>
        LET s == hello.server
            c == hello.client
            same_version == /\ s.version.major = c.version.major
                            /\ s.version.pre_release = c.version.pre_release
        IN  /\ hello.result = "Ok" <=> (s.signature = c.signature /\ same_version)
            /\ s.signature # c.signature => hello.result = "SignatureMismatch"
            /\ (s.signature = c.signature /\ ~same_version)
                    => hello.result = "VersionMismatch"

\* C23 (as claimed): on the accepted connection the Hello exchange is
\* performed and has matched before the worker writes any streamed message;
\* when the client's Hello mismatches nothing is ever written.
C23_HelloBeforeStream ==
    wire # <<>> =>
        /\ hello.result = "Ok"
        /\ matches(hello.server, hello.client) = "Ok"

\* C25 (as claimed): for any sequence of writes to a SpanLog or EventLog,
\* msg_len never exceeds the buffer capacity, bytes that do not fit are
\* dropped, no write fails, and as_bytes() returns exactly the msg_len bytes
\* that were stored.
C25_LogBuffer ==
    /\ log_msg.msg_len <= buffer_len(log_msg.kind)
    /\ last.op = "write" =>
          /\ last.ret.ok
          /\ last.ret.len = Min(Len(last.buf),
                                buffer_len(log_msg.kind) - last.pre_len)
          /\ log_msg.msg_len = last.pre_len + last.ret.len
    /\ \A i \in 1..log_msg.msg_len : as_bytes(log_msg)[i] # Uninit

\* C25 (amended): the same, but the first of the msg_len bytes is the slot of
\* var_count, which only write_finish stores: the bytes after it are the
\* stored bytes, and as_bytes() is wholly stored once write_finish has run
\* since new() / clear().
C25_LogBufferFinished ==
    /\ log_msg.msg_len <= buffer_len(log_msg.kind)
    /\ last.op = "write" =>
          /\ last.ret.ok
          /\ last.ret.len = Min(Len(last.buf),
                                buffer_len(log_msg.kind) - last.pre_len)
          /\ log_msg.msg_len = last.pre_len + last.ret.len
    /\ log_msg.msg_len = 1 + Len(log_msg.stored)
    /\ SubSeq(as_bytes(log_msg), 2, log_msg.msg_len) = log_msg.stored
    /\ log_msg.finished =>
          \A i \in 1..log_msg.msg_len : as_bytes(log_msg)[i] # Uninit

\* a write that was cut at the end of the buffer of a finished log
C25_Witness ==
    /\ last.op = "write"
    /\ last.ret.len > 0
    /\ last.ret.len < Len(last.buf)
    /\ log_msg.msg_len = buffer_len(log_msg.kind)
    /\ log_msg.finished

\* the bytes of s before its first NUL
RECURSIVE cstr(_)
cstr(s) == IF s = <<>> \/ Head(s) = 0 THEN <<>> ELSE <<Head(s)>> \o cstr(Tail(s))

\* the k bytes extended to eight: by zeros, or by the sign of the last
extend(bytes, signed) ==
    LET k == Len(bytes)
        fill == IF signed /\ bytes[k] >= 128 THEN 255 ELSE 0
    IN  [i \in 1..8 |-> IF i <= k THEN bytes[i] ELSE fill]

\* a reader of one field: the name up to its NUL, the tag, the value the tag
\* announces
decode_field(bytes) ==
    LET name == cstr(bytes)
        tag == bytes[Len(name) + 2]
        rest == SubSeq(bytes, Len(name) + 3, Len(bytes))
        width == CASE tag \in {1, 5, 11} -> 1 [] tag \in {2, 6} -> 2
                   [] tag \in {3, 7} -> 4 [] OTHER -> 8
    IN  [name |-> name,
         value |->
            CASE tag \in 1..4 ->
                    [ty |-> "i64", v |-> extend(SubSeq(rest, 1, width), TRUE)]
              [] tag \in 5..8 ->
                    [ty |-> "u64", v |-> extend(SubSeq(rest, 1, width), FALSE)]
              [] tag = 9 -> [ty |-> "f64", v |-> SubSeq(rest, 1, 8)]
              [] tag = 11 -> [ty |-> "bool", v |-> SubSeq(rest, 1, 1)]
              [] OTHER -> [ty |-> "str", v |-> cstr(rest)]]

\* C24 (as claimed): a field written by Field::write_into into a log with
\* enough free space and read back by its type tag is the original name and
\* value, for every supported value shape; every u64 and every i64, negative
\* ones included, is recovered exactly.
C24_FieldRoundTrip ==
    last.op = "write_into" =>
        decode_field(SubSeq(as_bytes(log_msg), last.pre_len + 1, log_msg.msg_len))
            = [name |-> last.name, value |-> last.value]

\* C26 (as claimed): every message written by network_write_fixed and
\* network_write_fixed_payload is the length prefix, then the one-byte type
\* tag, all SIZE bytes of the fixed-layout header and the payload bytes, and
\* the prefix equals the number of bytes that follow it.
C26_FixedFraming ==
    last.op \in {"network_write_fixed", "network_write_fixed_payload"} =>
        LET out == SubSeq(net.write, last.pre_len + 1, Len(net.write))
            body == SubSeq(out, 5, Len(out))
        IN  /\ SubSeq(out, 1, 4) = le_bytes(Len(body), 4)
            /\ body = <<last.message.TYPE>> \o last.message.header
                        \o last.payload

\* the handles of a guard that are alive
Alive(g) ==
    LET S[i \in 0..NumThreads] == IF i = 0 THEN 0 ELSE S[i - 1] + guards[i][g]
    IN  S[NumThreads]

\* C27 (as claimed): under any interleaving of new() and drop, once all
\* calls have completed, log capture is enabled if and only if a LogBuffer
\* is alive, and stdout/stderr logging is disabled if and only if a
\* DisableStdoutLogger is alive.
C27_GuardsCounted ==
    (\A t \in Threads : guards[t].pc = "idle") =>
        /\ logger.log_buffer <=> Alive("LogBuffer") > 0
        /\ ~logger.stdout <=> Alive("DisableStdoutLogger") > 0

\* the metadata's level is at most as verbose as the sink's hint, if any
WithinHint ==
    \/ ~filter.derived.max_level_hint.some
    \/ filter.level <= filter.derived.max_level_hint.v

\* C28 (as claimed): enabled(metadata) is true if and only if the sink's
\* max_level_hint() is none or the metadata's level is at most the hint, for
\* every level, hint and sink.
C28_Enabled == filter.called => (filter.result <=> WithinHint)

\* C28 (amended): enabled(metadata) is true if and only if the level is
\* within the hint and the sink's own enabled() is true.
C28_EnabledSink ==
    filter.called => (filter.result <=> (WithinHint /\ filter.derived.enabled))

\* a level more verbose than the hint was refused by a sink that is enabled,
\* as was a level within the hint by a sink that is not
C28_Witness ==
    /\ filter.called
    /\ ~filter.result
    /\ \/ ~WithinHint /\ filter.derived.enabled
       \/ WithinHint /\ ~filter.derived.enabled /\ filter.derived.max_level_hint.some

\* the Alloc commands of node n in the channel and on the wire
AllocsOf(n) ==
    Len(SelectSeq(ch_span_control, LAMBDA c : c.ty = "Alloc" /\ get_id(c.id) = n))
    + Len(SelectSeq(wire, LAMBDA m : m.ty = "SpanAlloc" /\ m.id = n))

\* C29: span_create is called with new = true exactly once per call-site, on
\* its first new_span, so exactly one Alloc is sent per node id: never a
\* second one, and while the worker runs every node id handed out has its
\* Alloc as soon as span_create has passed `if new`; also when threads race
\* on the call-site and when it is used again after all its spans were closed.
C29_OneAlloc ==
    /\ \A n \in 1..(NumCallSites + 1) : AllocsOf(n) <= 1
    /\ worker = "running" =>
          \A n \in 1..(NumCallSites + 1) :
              AllocsOf(n) =
                  IF /\ n < counter
                     /\ ~\E t \in Threads : pc[t] = "alloc" /\ get_id(pend[t].id) = n
                  THEN 1 ELSE 0
    /\ \A t \in Threads :
          pc[t] = "alloc" => pend[t].new /\ get_id(pend[t].id) = counter - 1

\* a call-site all of whose spans were closed is used again and its node
\* still has the one Alloc of its first new_span
C29_Witness ==
    /\ last.op = "new_span"
    /\ ~last.calls[1].new
    /\ last.pre_count = 0
    /\ worker = "running"
    /\ AllocsOf(get_id(last.id)) = 1
    /\ \E k \in 1..Len(expect) :
          expect[k].new /\ get_id(expect[k].id) = get_id(last.id)

\* the entries of expect of the identity id
SentFor(id) == {k \in 1..Len(expect) : expect[k].id = id}

\* C30: for an identity the sink has seen, span_create sends UpdateParent if
\* and only if the resolved parent node differs from the parent last sent for
\* the identity; on first sight it sends one UpdateParent; when new is true
\* the Alloc is in the channel (or taken from it) before that UpdateParent.
C30_UpdateParent ==
    [][\A t \in Threads :
        (pc[t] = "visit" /\ pc'[t] = "idle" /\ worker # "exited") =>
            LET id == pend[t].id
                parent == map_get_id(pend[t].parent)
                seen == id \in DOMAIN spans
                prior == SentFor(id)
                k == CHOOSE x \in prior : \A y \in prior : y <= x
                sends == ch_span_control'
                            = Append(ch_span_control, UpdateParent(id, parent))
            IN  /\ sends \/ ch_span_control' = ch_span_control
                /\ seen => /\ prior # {}
                           /\ sends <=> parent # map_get_id(expect[k].parent)
                /\ ~seen => sends
                /\ pend[t].new =>
                      \/ \E i \in 1..Len(ch_span_control) :
                            /\ ch_span_control[i].ty = "Alloc"
                            /\ ch_span_control[i].id = id
                      \/ \E i \in 1..Len(wire) :
                            wire[i].ty = "SpanAlloc" /\ wire[i].id = get_id(id)
      ]_vars

\* an identity first seen by the call that allocated the node was handed to
\* span_create again, with the parent sent before, and nothing was sent
C30_Witness ==
    /\ last.op = "new_span"
    /\ ~last.calls[1].new
    /\ pc[last.t] = "idle"
    /\ worker = "running"
    /\ Cardinality(SentFor(last.id)) = 1
    /\ \E k \in SentFor(last.id) : expect[k].new

\* ------------------------------------------------------------------------
\* Claims about the sink's scratch (checked under SpecScratch)

\* C31: span_exit sends a copy of the identity's scratch SpanLog carrying the
\* measured duration and then clears the scratch: a log sent by a span_exit
\* that follows another span_exit of the same identity, with no span_create
\* or span_values of it in between, carries no fields.
C31_ExitClears ==
    (last.op = "span_exit" /\ last.exits >= 1) =>
        /\ last.msg.var_count = 0
        /\ last.msg.msg_len = 1

\* ------------------------------------------------------------------------
\* Claims about the span store's messages

\* C32: stop_recording emits a SpanDataset only for the nodes whose recording
\* buffer is not empty: a registered node with no rows recorded produces no
\* message, so a stop_recording right after another emits nothing.
C32_NoEmptyDataset ==
    [][stop_recording =>
          \A n \in DOMAIN store.span_data :
              store.span_data[n].runs_file = <<>> => NewDatasets(n) = {}]_vars

\* C33: when a SpanLog is recorded for a registered node and the time since
\* the node's last push is at least the period, record emits a SpanUpdate with
\* run_count = row_count and sets the last push time to the time read, for
\* every elapsed time in 32-bit milliseconds, also 2^16 ms and more.
C33_PushWhenDue ==
    [][\A n \in DOMAIN store.span_data, gap \in 0..1 :
          (/\ now' = now + gap
           /\ store' = record(n, 0, gap).store \/ store' = record(n, 1, gap).store
           /\ nops' = nops + 1
           /\ (now + gap) - store.span_data[n].last_display_time >= store.period)
          => /\ Len(wire') = Len(wire) + 1
             /\ wire'[Len(wire')].ty = "SpanUpdate"
             /\ wire'[Len(wire')].id = n
             /\ wire'[Len(wire')].run_count = store'.span_data[n].row_count
             /\ store'.span_data[n].last_display_time \in now..(now + gap)]_vars

\* ------------------------------------------------------------------------
\* Claims about a run of fields (checked under SpecFieldSeq)

\* the number of bytes before the first NUL of bytes
strlen(bytes) ==
    LET nuls == {i \in 1..Len(bytes) : bytes[i] = 0} IN
    IF nuls = {} THEN Len(bytes)
    ELSE (CHOOSE i \in nuls : \A j \in nuls : i <= j) - 1

\* the fields a reader finds whole in bytes: a name and its NUL, a tag and
\* all the bytes of the value the tag announces
RECURSIVE complete_fields(_)
complete_fields(bytes) ==
    LET n == strlen(bytes)
        tag == bytes[n + 2]
        rest == SubSeq(bytes, n + 3, Len(bytes))
        width == CASE tag \in {1, 5, 11} -> 1 [] tag \in {2, 6} -> 2
                   [] tag \in {3, 7} -> 4 [] tag = 10 -> strlen(rest) + 1
                   [] OTHER -> 8
    IN  IF Len(bytes) < n + 2 \/ Len(rest) < width
        THEN 0
        ELSE 1 + complete_fields(SubSeq(rest, width + 1, Len(rest)))

\* where the fields of a log start: after the var_count slot and, in an
\* EventLog, the target and module new() wrote
fields_start(l) ==
    IF l.kind = "SpanLog" THEN 1 ELSE EventLog_buffer(<<109>>, <<116>>).msg_len

\* C34: in a finished SpanLog or EventLog the variable count equals the
\* number of fields that are completely encoded in its bytes, for any run of
\* Field::write_into calls, also runs whose bytes overflow the buffer and are
\* truncated.
C34_VarCount ==
    last.op = "write_finish" =>
        log_msg.buffer[1] =
            complete_fields(SubSeq(log_msg.buffer, fields_start(log_msg) + 1,
                                   last.pre_len))

\* ------------------------------------------------------------------------
\* Claims about the subscriber's mutex (checked under SpecLock)

\* C35: the subscriber mutex is held during a sink call only in new_span
\* (span_create) and try_close (span_destroy); record, record_follows_from,
\* event, enter and exit call the sink without holding the mutex, and
\* clone_span calls no sink at all.
C35_LockedSinkCalls ==
    /\ last.op # "none" =>
          /\ last.locked <=> last.cb \in {"span_create", "span_destroy"}
          /\ last.op = "new_span" <=> last.cb = "span_create"
          /\ last.cb = "span_destroy" => last.op = "try_close"
          /\ last.op = "clone_span" => last.cb = "none"
    /\ \A t \in Threads : mutex = t <=> pc[t] \in {"create", "destroy"}

\* span_exit was called by a thread while the other thread was inside new_span
\* holding the mutex
C35_Witness ==
    /\ last.op = "exit"
    /\ last.cb = "span_exit"
    /\ last.other
    /\ ~last.locked
    /\ \E t \in Threads : t # last.t /\ pc[t] = "create" /\ mutex = t

\* ------------------------------------------------------------------------
\* Claims about the log pump (checked under SpecPump)

\* C36: while the profiler is initialised and its worker is running, each
\* record emitted through the log crate (LogPump::log) puts exactly one
\* Event, with no parent span, on the event channel, which the worker later
\* writes as a SpanEvent with id 0.
C36_LogEnqueued ==
    [][(\E rec \in PumpRecords : pump_log(rec)) =>
          (worker = "running" =>
              ch_event' = Append(ch_event, EventLog_new(None32)))]_vars

\* ------------------------------------------------------------------------
\* Claims about blocked producers (checked under SpecFair)

C38_OwnEnter ==
    (last.op \in {"enter", "exit"} /\ last.calls # <<>>) =>
        /\ last.id \in DOMAIN spans_by_id
        /\ last.id \in DOMAIN expect
        /\ last.op = "exit" =>
              last.calls[1].duration <= now - expect[last.id]


\* C39: across sequential or concurrent terminate() calls on one
\* ProfilerState, exactly one Terminate command is sent on the control
\* channel, the worker is joined exactly once, and no call panics: never more
\* than one send or join, no thread panicked, and once a call has passed the
\* test of `exited` and every call has returned, there was one send and one
\* join.
C39_TerminateOnce ==
    /\ TermSent <= 1
    /\ TermJoins <= 1
    /\ \A t \in Threads : pc[t] # "panicked"
    /\ (exited /\ \A t \in Threads : pc[t] = "idle")
           => (TermSent = 1 /\ TermJoins = 1)


\* C40: the Project message is the first message the worker writes on the
\* wire: no SpanAlloc, SpanParent, SpanFollows or SpanEvent is written before
\* it, whatever branch the worker's select! serves first.
C40_ProjectFirst ==
    Len(wire) > 0 => wire[1].ty = "Project"

====
